---- MODULE Spec2Model ----
(***************************************************************************)
(* State-machine model of the openpoke provider integration layer:         *)
(*   server/services/whoop/client.py  (OAuth token manager, data requests) *)
(*   server/routes/whoop.py           (authorization redirect, callback)   *)
(*   server/services/hevy/client.py   (API-key store, data requests)       *)
(*                                                                         *)
(* Conventions.                                                            *)
(*  - A Python dict is a TLA+ function whose DOMAIN is the dict's keys, so *)
(*    `"k" in d` is  "k" \in DOMAIN d  and d.get("k", v) is Get(d,"k",v).  *)
(*  - A text value that the code strips or compares (OAuth state, API key) *)
(*    is a sequence of one-character strings.                              *)
(*  - A file is a record [exists, ...]; reads and writes of the local      *)
(*    files succeed (the `except` branches that only log an I/O fault of   *)
(*    the local disk are not part of the model).                           *)
(*  - Time is in seconds.                                                  *)
(*  - Every handler is one atomic action; `last` records what the most     *)
(*    recent call was given, what it sent and what it answered. last.n     *)
(*    alternates, so that every call is a step that changes `last`.        *)
(***************************************************************************)
EXTENDS Integers, Sequences, FiniteSets, TLC

VARIABLES
    settings,     \* Settings: whoop_client_id, whoop_client_secret, hevy_api_key
    now,          \* datetime.utcnow(), in seconds
    stateFile,    \* ~/.openpoke/whoop_oauth_state.txt
    tokenFile,    \* ~/.openpoke/whoop_token.json
    hevyFile,     \* ~/.openpoke/hevy_api_key.json
    issued,       \* history: every state value whoop_connect has issued
    consumed,     \* history: every stored nonce a callback has read and unlinked
    last,         \* observation of the most recent call
    tokenLock,    \* _TOKEN_LOCK: the thread that holds it, or None
    threads,      \* the threads of the process: the call each one is in
    smsFile,      \* ~/.openpoke/sms_config.json
    tasks         \* the tasks asyncio.create_task has scheduled, in order

\* the state of concurrently running calls
threadVars == <<tokenLock, threads>>

\* the state of the SMS integration
smsVars == <<smsFile, tasks>>

vars == <<settings, now, stateFile, tokenFile, hevyFile, issued, consumed, last,
          threadVars, smsVars>>

----------------------------------------------------------------------------
(* Bounds of the model *)

\* number of authorization redirects (state values issued) in one behaviour
MaxIssued == 2
\* most whitespace characters a presented state carries on either side
MaxPad == 1
\* number of times the clock advances in one behaviour
MaxTicks == 2
\* number of calls one thread makes in one behaviour
MaxCalls == 2
\* number of inbound messages (webhook requests) in one behaviour
MaxMessages == 2

(* Program constants *)

\* timedelta(minutes=5), in seconds
MarginSeconds == 300
\* token_data.get("expires_in", 3600)
DefaultExpiresIn == 3600

----------------------------------------------------------------------------
(* Values *)

\* Python None
None == "None"
EmptyDict == [k \in {} |-> None]

Whitespace == {" "}

\* the values secrets.token_urlsafe can return (43 url-safe characters in
\* the code, short ones here); a behaviour issues MaxIssued of them
Nonces == {<<"a">>, <<"b">>, <<"a", "b">>}
Spaces(k) == [i \in 1..k |-> " "]
\* the values a caller of /whoop/callback can put in ?state=: a value that
\* secrets.token_urlsafe can return, bare or with whitespace around it, or
\* nothing but whitespace
PresentedStates ==
    {Spaces(l) \o s \o Spaces(r) : s \in Nonces \cup {<<>>}, l \in 0..MaxPad, r \in 0..MaxPad}
Codes == {"c1", "c2"}

AccessTokens == {"at1", "at2"}
RefreshTokens == {"rt1", "rt2"}
\* expires_in values of the provider, in seconds: none left, equal to the
\* margin, one clock step over the margin (and the key may be missing, see
\* TokenBodies)
ExpiresIns == {0, 300, 360}
\* the time that passes between two calls, in seconds
ClockSteps == {60}

\* x is falsy in Python: None or the empty string
Truthy(x) == x # None /\ x # ""

Get(d, k, default) == IF k \in DOMAIN d THEN d[k] ELSE default

\* a dict key that is present when S = {v} and missing when S = {}
Maybe(k, S) == IF S = {} THEN EmptyDict ELSE (k :> (CHOOSE v \in S : TRUE))

Opt(S) == {{}} \cup {{v} : v \in S}

\* JSON bodies of a 2xx answer of the token endpoint (RFC 6749 5.1: access_token
\* is required, expires_in and refresh_token are optional)
TokenBodies ==
    { ("access_token" :> a) @@ ("token_type" :> "bearer")
        @@ Maybe("refresh_token", r) @@ Maybe("expires_in", e)
      : a \in AccessTokens, r \in Opt(RefreshTokens), e \in Opt(ExpiresIns) }

\* what requests.post / requests.get can give: a 2xx answer, a non-2xx answer
\* (raise_for_status raises HTTPError), or any other exception
NoResponse == [kind |-> "none", status |-> 0, body |-> EmptyDict]
TokenResponses ==
    {[kind |-> "ok", status |-> 200, body |-> b] : b \in TokenBodies}
    \cup {[kind |-> "http_error", status |-> 400, body |-> EmptyDict],
          [kind |-> "exception", status |-> 0, body |-> EmptyDict]}
\* the answers of the token endpoint to a refresh in the specifications that
\* follow a call step by step or through the tool layer: a failure, or one
\* new access token with or without expires_in and refresh_token
ThreadTokenResponses ==
    {r \in TokenResponses :
        r.kind = "ok" => (r.body["access_token"] = "at2"
                            /\ Get(r.body, "expires_in", 360) = 360
                            /\ Get(r.body, "refresh_token", "rt2") = "rt2")}

DataResponses ==
    {[kind |-> "ok", status |-> 200, body |-> EmptyDict],
     [kind |-> "http_error", status |-> 401, body |-> EmptyDict],
     [kind |-> "http_error", status |-> 500, body |-> EmptyDict],
     [kind |-> "exception", status |-> 0, body |-> EmptyDict]}

NoFile == [exists |-> FALSE, content |-> <<>>]
NoToken == [exists |-> FALSE, data |-> EmptyDict]

\* Settings.hevy_api_key is a text; <<>> stands for both None and ""
\* the environment: both Whoop credentials, the client id alone, neither
SettingsChoices ==
    {[whoop_client_id |-> "cid", whoop_client_secret |-> "secret", hevy_api_key |-> <<>>],
     [whoop_client_id |-> "cid", whoop_client_secret |-> "", hevy_api_key |-> <<>>],
     [whoop_client_id |-> "", whoop_client_secret |-> "", hevy_api_key |-> <<>>]}

\* the API keys of the model: one the provider accepts or rejects as it
\* likes, bare or with whitespace around it, and the empty and blank texts
HevyKeys == {<<"k">>, <<"j">>}
KeyInputs == HevyKeys \cup {<<>>, <<" ">>, <<" ", "k">>, <<"k", " ">>}
HevyEnvKeys == {<<>>, <<"k">>, <<"e">>}

\* sms_config.json does not exist
NoConfig == [exists |-> FALSE, data |-> EmptyDict]

\* the threads of the server process that run handlers at the same time
Threads == {"t1", "t2"}
\* a thread that is in no call: op is the call, pc the statement it is at,
\* token_data the local variable of _get_valid_token / _refresh_token (have
\* is FALSE when it is None), ret what the last call returned, calls the
\* number of calls the thread has made
IdleThread ==
    [op |-> "idle", pc |-> "idle", have |-> FALSE, token_data |-> EmptyDict,
     ret |-> None, calls |-> 0]

\* requests a call sends, in order
ReqExchange == "POST oauth2/token grant_type=authorization_code"
ReqRefresh == "POST oauth2/token grant_type=refresh_token"
ReqData == "GET developer/v2"
ReqHevy == "api.hevyapp.com/v1 api-key"
ReqHevyProbe == "GET api.hevyapp.com/v1/workouts X-API-Key"

----------------------------------------------------------------------------
(* str.strip() *)

IsSpace(c) == c \in Whitespace

RECURSIVE LStrip(_)
LStrip(s) ==
    IF s = <<>> THEN <<>>
    ELSE IF IsSpace(Head(s)) THEN LStrip(Tail(s)) ELSE s

RECURSIVE RStrip(_)
RStrip(s) ==
    IF s = <<>> THEN <<>>
    ELSE IF IsSpace(s[Len(s)]) THEN RStrip(SubSeq(s, 1, Len(s) - 1)) ELSE s

Strip(s) == RStrip(LStrip(s))

----------------------------------------------------------------------------
(* whoop/client.py: token file *)

\* _save_token: the file holds token_data
SaveToken(token_data) == [exists |-> TRUE, data |-> token_data]

\* _load_token: None when the file does not exist
LoadToken(file) == IF file.exists THEN file.data ELSE None

\* _clear_token
ClearToken(file) == NoToken

(* whoop/client.py: OAuth state file *)

\* _save_oauth_state
SaveOauthState(state) == [exists |-> TRUE, content |-> state]

\* mutant: the state file is read but not unlinked
ValidateAndClearState_KeepsFile(file, state) ==
    IF ~file.exists
    THEN [ok |-> FALSE, file |-> file, found |-> {}]
    ELSE [ok |-> (Strip(file.content) = state), file |-> file, found |-> {file.content}]

\* mutant: any state is accepted while a nonce is stored
ValidateAndClearState_AnyState(file, state) ==
    IF ~file.exists
    THEN [ok |-> FALSE, file |-> file, found |-> {}]
    ELSE [ok |-> TRUE, file |-> NoFile, found |-> {file.content}]

\* _validate_and_clear_state: [ok, file, found]; found is the stored nonce the
\* call has read and unlinked
\* mutant: the stored state is removed only when it matches
ValidateAndClearState_UnlinksOnMatchOnly(file, state) ==
    IF ~file.exists
    THEN [ok |-> FALSE, file |-> file, found |-> {}]
    ELSE LET saved_state == Strip(file.content)
         IN  IF saved_state = state
             THEN [ok |-> TRUE, file |-> NoFile, found |-> {file.content}]
             ELSE [ok |-> FALSE, file |-> file, found |-> {}]

ValidateAndClearState(file, state) ==
    IF ~file.exists
    THEN [ok |-> FALSE, file |-> file, found |-> {}]
    ELSE LET saved_state == Strip(file.content)
         IN  [ok |-> (saved_state = state), file |-> NoFile, found |-> {file.content}]

\* mutant: the margin comparison is strict
IsTokenExpired_Strict(token_data, t) ==
    IF ~Truthy(Get(token_data, "access_token", None)) THEN TRUE
    ELSE IF "expires_at" \notin DOMAIN token_data THEN TRUE
    ELSE t + MarginSeconds > token_data["expires_at"]

\* _is_token_expired
IsTokenExpired(token_data, t) ==
    IF ~Truthy(Get(token_data, "access_token", None)) THEN TRUE
    ELSE IF "expires_at" \notin DOMAIN token_data THEN TRUE
    ELSE t + MarginSeconds >= token_data["expires_at"]

\* the token_data a 2xx token answer becomes: expires_at is added
WithExpiry(body, t) ==
    ("expires_at" :> (t + Get(body, "expires_in", DefaultExpiresIn))) @@ body

\* mutant: the stored refresh token is not carried over
RefreshToken_DropsRefreshToken(cfg, file, t, resp) ==
    LET token_data == LoadToken(file)
        fail(reqs) == [none |-> TRUE, ret |-> EmptyDict, file |-> file, reqs |-> reqs]
    IN  IF ~file.exists \/ ~Truthy(Get(token_data, "refresh_token", None))
        THEN fail(<<>>)
        ELSE IF ~Truthy(cfg.whoop_client_id) \/ ~Truthy(cfg.whoop_client_secret)
        THEN fail(<<>>)
        ELSE IF resp.kind # "ok"
        THEN fail(<<ReqRefresh>>)
        ELSE [none |-> FALSE, ret |-> WithExpiry(resp.body, t),
              file |-> SaveToken(WithExpiry(resp.body, t)), reqs |-> <<ReqRefresh>>]

\* mutant: the new token_data is returned but not saved
RefreshToken_DoesNotSave(cfg, file, t, resp) ==
    LET token_data == LoadToken(file)
        fail(reqs) == [none |-> TRUE, ret |-> EmptyDict, file |-> file, reqs |-> reqs]
    IN  IF ~file.exists \/ ~Truthy(Get(token_data, "refresh_token", None))
        THEN fail(<<>>)
        ELSE IF ~Truthy(cfg.whoop_client_id) \/ ~Truthy(cfg.whoop_client_secret)
        THEN fail(<<>>)
        ELSE IF resp.kind # "ok"
        THEN fail(<<ReqRefresh>>)
        ELSE [none |-> FALSE,
              ret |-> ("refresh_token" :> token_data["refresh_token"])
                          @@ WithExpiry(resp.body, t),
              file |-> file, reqs |-> <<ReqRefresh>>]

\* _refresh_token: [none, ret, file, reqs]; the call returns None when none is
\* TRUE and the new token_data ret otherwise. resp is the token endpoint's
\* answer if a request is sent.
\* mutant: a refresh the provider refused deletes the stale record
RefreshToken_ClearsOnFailure(cfg, file, t, resp) ==
    LET token_data == LoadToken(file)
        fail(reqs) == [none |-> TRUE, ret |-> EmptyDict, file |-> file, reqs |-> reqs]
    IN  IF ~file.exists \/ ~Truthy(Get(token_data, "refresh_token", None))
        THEN fail(<<>>)
        ELSE IF ~Truthy(cfg.whoop_client_id) \/ ~Truthy(cfg.whoop_client_secret)
        THEN fail(<<>>)
        ELSE IF resp.kind # "ok"
        THEN [none |-> TRUE, ret |-> EmptyDict, file |-> ClearToken(file),
              reqs |-> <<ReqRefresh>>]
        ELSE LET stamped == WithExpiry(resp.body, t)
                 new_token_data ==
                     IF "refresh_token" \notin DOMAIN stamped
                     THEN ("refresh_token" :> token_data["refresh_token"]) @@ stamped
                     ELSE stamped
             IN  [none |-> FALSE, ret |-> new_token_data,
                  file |-> SaveToken(new_token_data),
                  reqs |-> <<ReqRefresh>>]

RefreshToken(cfg, file, t, resp) ==
    LET token_data == LoadToken(file)
        fail(reqs) == [none |-> TRUE, ret |-> EmptyDict, file |-> file, reqs |-> reqs]
    IN  IF ~file.exists \/ ~Truthy(Get(token_data, "refresh_token", None))
        THEN fail(<<>>)
        ELSE IF ~Truthy(cfg.whoop_client_id) \/ ~Truthy(cfg.whoop_client_secret)
        THEN fail(<<>>)
        ELSE IF resp.kind # "ok"
        THEN fail(<<ReqRefresh>>)
        ELSE LET stamped == WithExpiry(resp.body, t)
                 new_token_data ==
                     IF "refresh_token" \notin DOMAIN stamped
                     THEN ("refresh_token" :> token_data["refresh_token"]) @@ stamped
                     ELSE stamped
             IN  [none |-> FALSE, ret |-> new_token_data,
                  file |-> SaveToken(new_token_data),
                  reqs |-> <<ReqRefresh>>]

\* mutant: every read refreshes, expiring-soon or not
GetValidToken_AlwaysRefreshes(cfg, file, t, resp) ==
    IF ~file.exists
    THEN [ret |-> None, file |-> file, reqs |-> <<>>, refresh |-> 0]
    ELSE LET r == RefreshToken(cfg, file, t, resp)
         IN  IF r.none
             THEN [ret |-> None, file |-> r.file, reqs |-> r.reqs, refresh |-> 1]
             ELSE [ret |-> Get(r.ret, "access_token", None), file |-> r.file,
                   reqs |-> r.reqs, refresh |-> 1]

\* mutant: when the refresh fails the stored access token is returned
GetValidToken_FallsBackToStored(cfg, file, t, resp) ==
    IF ~file.exists
    THEN [ret |-> None, file |-> file, reqs |-> <<>>, refresh |-> 0]
    ELSE IF IsTokenExpired(LoadToken(file), t)
    THEN LET r == RefreshToken(cfg, file, t, resp)
         IN  IF r.none
             THEN [ret |-> Get(LoadToken(file), "access_token", None),
                   file |-> r.file, reqs |-> r.reqs, refresh |-> 1]
             ELSE [ret |-> Get(r.ret, "access_token", None), file |-> r.file,
                   reqs |-> r.reqs, refresh |-> 1]
    ELSE [ret |-> Get(LoadToken(file), "access_token", None), file |-> file,
          reqs |-> <<>>, refresh |-> 0]

\* _get_valid_token: [ret, file, reqs, refresh]; ret is the access token or None,
\* refresh counts the calls of _refresh_token
GetValidToken(cfg, file, t, resp) ==
    IF ~file.exists
    THEN [ret |-> None, file |-> file, reqs |-> <<>>, refresh |-> 0]
    ELSE IF IsTokenExpired(LoadToken(file), t)
    THEN LET r == RefreshToken(cfg, file, t, resp)
         IN  IF r.none
             THEN [ret |-> None, file |-> r.file, reqs |-> r.reqs, refresh |-> 1]
             ELSE [ret |-> Get(r.ret, "access_token", None), file |-> r.file,
                   reqs |-> r.reqs, refresh |-> 1]
    ELSE [ret |-> Get(LoadToken(file), "access_token", None), file |-> file,
          reqs |-> <<>>, refresh |-> 0]

\* what a handler answers
Answer(status, detail) == [status |-> status, detail |-> detail]

\* mutant: a 401 of the provider leaves the token file in place
MakeWhoopRequest_KeepsTokenOn401(cfg, file, t, tokenResp, dataResp) ==
    LET g == GetValidToken(cfg, file, t, tokenResp)
    IN  IF ~Truthy(g.ret)
        THEN [answer |-> Answer(401, "Whoop not connected"), file |-> g.file,
              reqs |-> g.reqs, bearer |-> None, refresh |-> g.refresh]
        ELSE LET sent == g.reqs \o <<ReqData>>
                 out(a, f) == [answer |-> a, file |-> f, reqs |-> sent,
                               bearer |-> g.ret, refresh |-> g.refresh]
             IN  IF dataResp.kind = "ok"
                 THEN out(Answer(200, "data"), g.file)
                 ELSE IF dataResp.kind = "http_error"
                 THEN IF dataResp.status = 401
                      THEN out(Answer(401, "Whoop authentication expired"), g.file)
                      ELSE out(Answer(dataResp.status, "Whoop API error"), g.file)
                 ELSE out(Answer(500, "Failed to fetch Whoop data"), g.file)

\* _make_whoop_request: [answer, file, reqs, bearer, refresh]
MakeWhoopRequest(cfg, file, t, tokenResp, dataResp) ==
    LET g == GetValidToken(cfg, file, t, tokenResp)
    IN  IF ~Truthy(g.ret)
        THEN [answer |-> Answer(401, "Whoop not connected"), file |-> g.file,
              reqs |-> g.reqs, bearer |-> None, refresh |-> g.refresh]
        ELSE LET sent == g.reqs \o <<ReqData>>
                 out(a, f) == [answer |-> a, file |-> f, reqs |-> sent,
                               bearer |-> g.ret, refresh |-> g.refresh]
             IN  IF dataResp.kind = "ok"
                 THEN out(Answer(200, "data"), g.file)
                 ELSE IF dataResp.kind = "http_error"
                 THEN IF dataResp.status = 401
                      THEN out(Answer(401, "Whoop authentication expired"),
                               ClearToken(g.file))
                      ELSE out(Answer(dataResp.status, "Whoop API error"), g.file)
                 ELSE out(Answer(500, "Failed to fetch Whoop data"), g.file)

\* mutant: the new record is merged into the persisted one
ExchangeCode_KeepsPriorFields(code, cfg, tfile, t, resp) ==
    LET out(a, tf, reqs) == [answer |-> a, tokenFile |-> tf, reqs |-> reqs]
    IN  IF ~Truthy(cfg.whoop_client_id) \/ ~Truthy(cfg.whoop_client_secret)
        THEN out(Answer(500, "Whoop client credentials not configured"), tfile, <<>>)
        ELSE IF resp.kind = "ok"
        THEN out(Answer(200, "Whoop connected"),
                 SaveToken(WithExpiry(resp.body, t) @@ tfile.data), <<ReqExchange>>)
        ELSE IF resp.kind = "http_error"
        THEN out(Answer(400, "Failed to connect Whoop"), tfile, <<ReqExchange>>)
        ELSE out(Answer(500, "Failed to connect Whoop"), tfile, <<ReqExchange>>)

\* connect_whoop, lines 230-279, after the state check has passed:
\* [answer, tokenFile, reqs]
ExchangeCode(code, cfg, tfile, t, resp) ==
    LET out(a, tf, reqs) == [answer |-> a, tokenFile |-> tf, reqs |-> reqs]
    IN  IF ~Truthy(cfg.whoop_client_id) \/ ~Truthy(cfg.whoop_client_secret)
        THEN out(Answer(500, "Whoop client credentials not configured"), tfile, <<>>)
        ELSE IF resp.kind = "ok"
        THEN out(Answer(200, "Whoop connected"),
                 SaveToken(WithExpiry(resp.body, t)), <<ReqExchange>>)
        ELSE IF resp.kind = "http_error"
        THEN out(Answer(400, "Failed to connect Whoop"), tfile, <<ReqExchange>>)
        ELSE out(Answer(500, "Failed to connect Whoop"), tfile, <<ReqExchange>>)

\* mutant: the code is exchanged whether the state check passes or not
ConnectWhoop_ExchangesAnyway(code, state, cfg, sfile, tfile, t, resp) ==
    LET v == ValidateAndClearState(sfile, state)
        x == ExchangeCode(code, cfg, tfile, t, resp)
    IN  IF ~v.ok
        THEN [answer |-> Answer(400, "Invalid OAuth state"), stateFile |-> v.file,
              tokenFile |-> x.tokenFile, reqs |-> x.reqs, found |-> v.found]
        ELSE [answer |-> x.answer, stateFile |-> v.file, tokenFile |-> x.tokenFile,
              reqs |-> x.reqs, found |-> v.found]

\* connect_whoop: [answer, stateFile, tokenFile, reqs, found]
ConnectWhoop(code, state, cfg, sfile, tfile, t, resp) ==
    LET v == ValidateAndClearState(sfile, state)
        x == ExchangeCode(code, cfg, tfile, t, resp)
    IN  IF ~v.ok
        THEN [answer |-> Answer(400, "Invalid OAuth state"), stateFile |-> v.file,
              tokenFile |-> tfile, reqs |-> <<>>, found |-> v.found]
        ELSE [answer |-> x.answer, stateFile |-> v.file, tokenFile |-> x.tokenFile,
              reqs |-> x.reqs, found |-> v.found]

\* get_whoop_status: [answer, connected, file, reqs]
\* mutant: an expiring record counts as connected whatever the refresh gives
GetWhoopStatusOf_IgnoresRefreshResult(cfg, file, t, resp) ==
    LET token_data == LoadToken(file)
        out(c, f, reqs) == [answer |-> Answer(200, "status"), connected |-> c,
                            file |-> f, reqs |-> reqs]
    IN  IF ~file.exists \/ ~Truthy(Get(token_data, "access_token", None))
        THEN out(FALSE, file, <<>>)
        ELSE IF IsTokenExpired(token_data, t)
        THEN LET r == RefreshToken(cfg, file, t, resp)
             IN  out(TRUE, r.file, r.reqs)
        ELSE out(TRUE, file, <<>>)

GetWhoopStatusOf(cfg, file, t, resp) ==
    LET token_data == LoadToken(file)
        out(c, f, reqs) == [answer |-> Answer(200, "status"), connected |-> c,
                            file |-> f, reqs |-> reqs]
    IN  IF ~file.exists \/ ~Truthy(Get(token_data, "access_token", None))
        THEN out(FALSE, file, <<>>)
        ELSE IF IsTokenExpired(token_data, t)
        THEN LET r == RefreshToken(cfg, file, t, resp)
             IN  IF r.none
                 THEN out(FALSE, r.file, r.reqs)
                 ELSE out(TRUE, r.file, r.reqs)
        ELSE out(TRUE, file, <<>>)

----------------------------------------------------------------------------
(* hevy/client.py *)

\* _save_api_key_to_file
SaveApiKeyToFile(api_key) == [exists |-> TRUE, content |-> api_key]

\* _load_api_key_from_file: <<>> for None
LoadApiKeyFromFile(file) == IF file.exists THEN file.content ELSE <<>>

\* _clear_api_key_file
ClearApiKeyFile(file) == NoFile

\* _get_api_key: the stored key first, then the environment's
GetApiKey(cfg, file) ==
    LET api_key == LoadApiKeyFromFile(file)
    IN  IF api_key # <<>> THEN api_key ELSE cfg.hevy_api_key

\* mutant: a request that failed with a server error or in transport is sent
\* a second time
MakeHevyRequest_RetriesOnFailure(cfg, file, resp) ==
    LET api_key == GetApiKey(cfg, file)
        out(a, n) == [answer |-> a, file |-> file,
                      reqs |-> IF n = 2 THEN <<ReqHevy, ReqHevy>> ELSE <<ReqHevy>>,
                      key |-> api_key]
    IN  IF api_key = <<>>
        THEN [answer |-> Answer(401, "Hevy not connected"), file |-> file,
              reqs |-> <<>>, key |-> <<>>]
        ELSE IF resp.kind = "ok"
        THEN out(Answer(200, "data"), 1)
        ELSE IF resp.kind = "http_error"
        THEN IF resp.status = 401
             THEN out(Answer(401, "Hevy API key is invalid"), 1)
             ELSE out(Answer(resp.status, "Hevy API error"), 2)
        ELSE out(Answer(500, "Failed to fetch Hevy data"), 2)

\* _make_hevy_request: [answer, file, reqs, key]
MakeHevyRequest(cfg, file, resp) ==
    LET api_key == GetApiKey(cfg, file)
        out(a) == [answer |-> a, file |-> file, reqs |-> <<ReqHevy>>, key |-> api_key]
    IN  IF api_key = <<>>
        THEN [answer |-> Answer(401, "Hevy not connected"), file |-> file,
              reqs |-> <<>>, key |-> <<>>]
        ELSE IF resp.kind = "ok"
        THEN out(Answer(200, "data"))
        ELSE IF resp.kind = "http_error"
        THEN IF resp.status = 401
             THEN out(Answer(401, "Hevy API key is invalid"))
             ELSE out(Answer(resp.status, "Hevy API error"))
        ELSE out(Answer(500, "Failed to fetch Hevy data"))

\* mutant: the key is written before the probe is answered
SaveHevyApiKey_SavesBeforeProbe(api_key, file, resp) ==
    IF api_key = <<>> \/ Strip(api_key) = <<>>
    THEN [answer |-> Answer(400, "API key cannot be empty"), file |-> file,
          reqs |-> <<>>]
    ELSE IF resp.kind = "ok"
    THEN [answer |-> Answer(200, "Hevy API key saved"),
          file |-> SaveApiKeyToFile(Strip(api_key)), reqs |-> <<ReqHevyProbe>>]
    ELSE IF resp.kind = "http_error"
    THEN [answer |-> Answer(400, "Invalid Hevy API key"),
          file |-> SaveApiKeyToFile(Strip(api_key)), reqs |-> <<ReqHevyProbe>>]
    ELSE [answer |-> Answer(500, "Failed to save Hevy API key"),
          file |-> SaveApiKeyToFile(Strip(api_key)), reqs |-> <<ReqHevyProbe>>]

\* save_hevy_api_key: [answer, file, reqs]
SaveHevyApiKey(api_key, file, resp) ==
    IF api_key = <<>> \/ Strip(api_key) = <<>>
    THEN [answer |-> Answer(400, "API key cannot be empty"), file |-> file,
          reqs |-> <<>>]
    ELSE IF resp.kind = "ok"
    THEN [answer |-> Answer(200, "Hevy API key saved"),
          file |-> SaveApiKeyToFile(Strip(api_key)), reqs |-> <<ReqHevyProbe>>]
    ELSE IF resp.kind = "http_error"
    THEN [answer |-> Answer(400, "Invalid Hevy API key"), file |-> file,
          reqs |-> <<ReqHevyProbe>>]
    ELSE [answer |-> Answer(500, "Failed to save Hevy API key"), file |-> file,
          reqs |-> <<ReqHevyProbe>>]

\* clear_hevy_api_key: [answer, file]
ClearHevyApiKey(file) ==
    [answer |-> Answer(200, "Hevy disconnected"), file |-> ClearApiKeyFile(file)]

\* get_hevy_status: [connected, source, reqs]
GetHevyStatusOf(cfg, file, resp) ==
    LET api_key == GetApiKey(cfg, file)
    IN  IF api_key = <<>>
        THEN [connected |-> FALSE, source |-> None, reqs |-> <<>>]
        ELSE IF api_key = cfg.hevy_api_key /\ cfg.hevy_api_key # <<>>
        THEN [connected |-> TRUE, source |-> "environment", reqs |-> <<>>]
        ELSE IF resp.kind = "ok"
        THEN [connected |-> TRUE, source |-> "validated", reqs |-> <<ReqHevyProbe>>]
        ELSE [connected |-> FALSE, source |-> None, reqs |-> <<ReqHevyProbe>>]

----------------------------------------------------------------------------
(* sms/client.py, routes/sms.py *)

\* Python `a or b`
Or(a, b) == IF Truthy(a) THEN a ELSE b

\* the phone numbers of the model: the Twilio number of the account, the
\* numbers messages come from
TwilioNumber == "+15550000000"
Senders == {"+15551234567", "+15557654321"}
\* the texts of inbound messages
Bodies == {"hello"}
\* a form field that is an upload, not a text (len() of it raises TypeError)
UploadFile == "<UploadFile>"
\* the texts InteractionAgentRuntime.execute_sync returns
Replies == {"hi there"}
\* error_msg of handle_incoming_sms
ApologyText == "Sorry, I encountered an error processing your message."
\* the body of every answer of POST /sms/webhook
EmptyTwiml == "<?xml version=1.0 encoding=UTF-8?><Response></Response>"

\* what a call of the Twilio SDK gives: a result or an exception
TwilioAnswers == {"ok", "error"}
\* client.incoming_phone_numbers.list: numbers, no number, an exception
ListAnswers == {"found", "empty", "error"}
\* what awaiting runtime.execute_sync gives: a reply text or an exception
AgentOutcomes ==
    {[kind |-> "ok", text |-> r] : r \in Replies}
        \cup {[kind |-> "exception", text |-> None]}

\* the form of a webhook request: request.form() raises, or gives the fields
Forms ==
    {[parse |-> "ok", From |-> f, Body |-> b] :
        f \in Senders, b \in Bodies \cup {UploadFile}}
    \cup {[parse |-> "error", From |-> "", Body |-> ""]}

\* the environment of the SMS integration: TWILIO_* set or not, the Twilio
\* SDK importable or not
SmsSettings ==
    {[whoop_client_id |-> "cid", whoop_client_secret |-> "secret",
      hevy_api_key |-> <<>>, twilio_account_sid |-> e[1],
      twilio_auth_token |-> e[2], twilio_phone_number |-> e[3],
      twilio_installed |-> e[4]] :
        e \in {<<"AC1", "tok", TwilioNumber, TRUE>>, <<"AC1", "tok", "", TRUE>>,
                <<"", "", "", TRUE>>, <<"", "", TwilioNumber, FALSE>>}}

\* _load_config: {} when the file does not exist
LoadConfig(file) == IF file.exists THEN file.data ELSE EmptyDict

\* _save_config
SaveConfig(config) == [exists |-> TRUE, data |-> config]

\* _get_twilio_client: [raised, error, account_sid, auth_token]
GetTwilioClient(cfg, file) ==
    LET config == LoadConfig(file)
        account_sid == Or(cfg.twilio_account_sid, Get(config, "account_sid", None))
        auth_token == Or(cfg.twilio_auth_token, Get(config, "auth_token", None))
    IN  IF ~cfg.twilio_installed
        THEN [raised |-> TRUE, error |-> "Twilio SDK not installed",
              account_sid |-> None, auth_token |-> None]
        ELSE IF ~Truthy(account_sid) \/ ~Truthy(auth_token)
        THEN [raised |-> TRUE, error |-> "Twilio credentials not configured",
              account_sid |-> None, auth_token |-> None]
        ELSE [raised |-> FALSE, error |-> None,
              account_sid |-> account_sid, auth_token |-> auth_token]

\* no result: the call has raised, or no call was made
NoResult == EmptyDict

\* send_sms: [raised, error, result, sent]; result is the dict returned when
\* the call returns, sent the messages handed to client.messages.create
SendSms(cfg, file, to_number, message, resp) ==
    LET config == LoadConfig(file)
        from_number == Or(cfg.twilio_phone_number, Get(config, "phone_number", None))
        client == GetTwilioClient(cfg, file)
        create == [to |-> to_number, from_ |-> from_number, body |-> message]
    IN  IF ~Truthy(from_number)
        THEN [raised |-> TRUE, error |-> "Twilio phone number not configured",
              result |-> NoResult, sent |-> <<>>]
        ELSE IF client.raised
        THEN [raised |-> FALSE, error |-> None,
              result |-> [success |-> FALSE, error |-> client.error], sent |-> <<>>]
        ELSE IF resp = "ok"
        THEN [raised |-> FALSE, error |-> None,
              result |-> [success |-> TRUE, sid |-> "SM1", status |-> "queued",
                          to |-> to_number],
              sent |-> <<create>>]
        ELSE [raised |-> FALSE, error |-> None,
              result |-> [success |-> FALSE, error |-> "TwilioRestException"],
              sent |-> <<create>>]

\* one call of send_sms as handle_incoming_sms makes it
SendCall(to_number, message, r) ==
    [to |-> to_number, message |-> message, raised |-> r.raised,
     result |-> r.result, sent |-> r.sent]

\* mutant: the reply of the agent is not sent
HandleIncomingSms_DropsReply(cfg, file, from_number, message_body, agent, resp1, resp2) ==
    LET apology == SendSms(cfg, file, from_number, ApologyText, resp2)
    IN  IF agent.kind = "ok"
        THEN [raised |-> FALSE, ret |-> "Message processed", calls |-> <<>>]
        ELSE [raised |-> apology.raised,
              ret |-> IF apology.raised THEN None ELSE "Error",
              calls |-> <<SendCall(from_number, ApologyText, apology)>>]

\* handle_incoming_sms from the point where execute_sync is awaited:
\* [raised, ret, calls]; agent is what the await gives, resp1 and resp2 are
\* what Twilio answers to the reply and to the apology
\* mutant: the apology is also sent when the send of the reply has returned
\* a failure
HandleIncomingSms_ApologyAfterFailedReply(cfg, file, from_number, message_body, agent, resp1, resp2) ==
    LET reply == SendSms(cfg, file, from_number, agent.text, resp1)
        apology == SendSms(cfg, file, from_number, ApologyText,
                           IF agent.kind = "ok" THEN "ok" ELSE resp2)
        tried == IF agent.kind = "ok"
                 THEN <<SendCall(from_number, agent.text, reply)>> ELSE <<>>
    IN  IF agent.kind = "ok" /\ ~reply.raised /\ reply.result.success
        THEN [raised |-> FALSE, ret |-> "Message processed", calls |-> tried]
        ELSE [raised |-> apology.raised,
              ret |-> IF apology.raised THEN None ELSE "Error",
              calls |-> tried \o <<SendCall(from_number, ApologyText, apology)>>]

HandleIncomingSms(cfg, file, from_number, message_body, agent, resp1, resp2) ==
    LET reply == SendSms(cfg, file, from_number, agent.text, resp1)
        apology == SendSms(cfg, file, from_number, ApologyText, resp2)
        tried == IF agent.kind = "ok"
                 THEN <<SendCall(from_number, agent.text, reply)>> ELSE <<>>
    IN  IF agent.kind = "ok" /\ ~reply.raised
        THEN [raised |-> FALSE, ret |-> "Message processed", calls |-> tried]
        ELSE [raised |-> apology.raised,
              ret |-> IF apology.raised THEN None ELSE "Error",
              calls |-> tried \o <<SendCall(from_number, ApologyText, apology)>>]

\* a task that asyncio.create_task has scheduled and that has not run yet
NewTask(from_number, message_body) ==
    [from |-> from_number, body |-> message_body, pc |-> "scheduled",
     agent |-> None, reply |-> None, calls |-> <<>>, ret |-> None]

\* mutant: a failure inside the handler is answered with an error
Webhook_ErrorOnFailure(form) ==
    IF form.parse # "ok" \/ form.Body = UploadFile
    THEN [answer |-> Answer(500, "Internal Server Error"), scheduled |-> <<>>]
    ELSE [answer |-> Answer(200, EmptyTwiml),
          scheduled |-> <<NewTask(form.From, form.Body)>>]

\* webhook: [answer, scheduled]; scheduled is the task created, if any
Webhook(form) ==
    IF form.parse # "ok" \/ form.Body = UploadFile
    THEN [answer |-> Answer(200, EmptyTwiml), scheduled |-> <<>>]
    ELSE [answer |-> Answer(200, EmptyTwiml),
          scheduled |-> <<NewTask(form.From, form.Body)>>]

\* connect_sms: [answer, file, reqs]
\* mutant: an error of the phone-number check fails the connect
ConnectSms_FailsOnListError(cfg, file, account_sid, auth_token, phone_number, fetch, list) ==
    IF ~cfg.twilio_installed
    THEN [answer |-> Answer(500, "Twilio SDK not installed"), file |-> file,
          reqs |-> <<>>]
    ELSE IF fetch # "ok"
    THEN [answer |-> Answer(400, "Failed to connect to Twilio"), file |-> file,
          reqs |-> <<"accounts.fetch">>]
    ELSE IF list = "empty"
    THEN [answer |-> Answer(400, "Phone number not found in your Twilio account"),
          file |-> file, reqs |-> <<"accounts.fetch", "incoming_phone_numbers.list">>]
    ELSE IF list = "error"
    THEN [answer |-> Answer(400, "Failed to connect to Twilio"), file |-> file,
          reqs |-> <<"accounts.fetch", "incoming_phone_numbers.list">>]
    ELSE [answer |-> Answer(200, "ok"),
          file |-> SaveConfig([account_sid |-> account_sid, auth_token |-> auth_token,
                               phone_number |-> phone_number]),
          reqs |-> <<"accounts.fetch", "incoming_phone_numbers.list">>]

ConnectSms(cfg, file, account_sid, auth_token, phone_number, fetch, list) ==
    IF ~cfg.twilio_installed
    THEN [answer |-> Answer(500, "Twilio SDK not installed"), file |-> file,
          reqs |-> <<>>]
    ELSE IF fetch # "ok"
    THEN [answer |-> Answer(400, "Failed to connect to Twilio"), file |-> file,
          reqs |-> <<"accounts.fetch">>]
    ELSE IF list = "empty"
    THEN [answer |-> Answer(400, "Phone number not found in your Twilio account"),
          file |-> file, reqs |-> <<"accounts.fetch", "incoming_phone_numbers.list">>]
    ELSE [answer |-> Answer(200, "ok"),
          file |-> SaveConfig([account_sid |-> account_sid, auth_token |-> auth_token,
                               phone_number |-> phone_number]),
          reqs |-> <<"accounts.fetch", "incoming_phone_numbers.list">>]

\* mutant: the file is unlinked without the exists() check
DisconnectSms_FailsWhenAbsent(file) ==
    IF file.exists
    THEN [answer |-> Answer(200, "ok"), file |-> NoConfig]
    ELSE [answer |-> Answer(500, "FileNotFoundError"), file |-> file]

\* disconnect_sms: [answer, file]
DisconnectSms(file) == [answer |-> Answer(200, "ok"), file |-> NoConfig]

\* get_sms_status: [connected, source, reqs]
GetSmsStatusOf(cfg, file, fetch) ==
    LET config == LoadConfig(file)
        has_credentials ==
            /\ Truthy(Or(cfg.twilio_account_sid, Get(config, "account_sid", None)))
            /\ Truthy(Or(cfg.twilio_auth_token, Get(config, "auth_token", None)))
        client == GetTwilioClient(cfg, file)
    IN  IF ~has_credentials
        THEN [connected |-> FALSE, source |-> None, reqs |-> <<>>]
        ELSE IF client.raised
        THEN [connected |-> FALSE, source |-> None, reqs |-> <<>>]
        ELSE IF fetch # "ok"
        THEN [connected |-> FALSE, source |-> None, reqs |-> <<"accounts.fetch">>]
        ELSE [connected |-> TRUE,
              source |-> IF Truthy(cfg.twilio_account_sid)
                         THEN "environment" ELSE "stored",
              reqs |-> <<"accounts.fetch">>]

----------------------------------------------------------------------------
(* agents/execution_agent/tools/whoop.py, tools/hevy.py: the tool callables *)

\* a Python str
Str(x) == [type |-> "str", text |-> x]

\* a date argument: a text made of a day (the number of the day that
\* YYYY-MM-DD names, counted from the day of time 0) and what follows the
\* tenth character (time, "" for a bare YYYY-MM-DD); NoDate stands for None
\* and ""
NoDate == [given |-> FALSE, day |-> 0, time |-> ""]
BareDate(n) == [given |-> TRUE, day |-> n, time |-> ""]
DateTime(n, hms) == [given |-> TRUE, day |-> n, time |-> hms]
HasDate(d) == d.given
\* the (start_date, end_date) a tool is called with: none, both, only the start
ToolRanges ==
    {<<NoDate, NoDate>>, <<BareDate(1), BareDate(2)>>, <<BareDate(1), NoDate>>}
SecondsPerDay == 86400
\* datetime.utcnow() at day granularity
Today(t) == t \div SecondsPerDay
\* mutant: the window is the last 30 days
DefaultDateRange_ThirtyDays(t) == <<BareDate(Today(t) - 30), BareDate(Today(t))>>

\* _get_default_date_range: (seven days before today, today), both formatted
\* "%Y-%m-%d"
DefaultDateRange(t) == <<BareDate(Today(t) - 7), BareDate(Today(t))>>

\* the names build_registry gives the callables
WhoopTools ==
    {"whoop_get_recovery", "whoop_get_sleep", "whoop_get_strain",
     "whoop_get_workouts", "whoop_get_cycles"}
HevyTools ==
    {"hevy_get_workouts", "hevy_get_workout_details", "hevy_get_routines",
     "hevy_get_routine_details", "hevy_create_routine", "hevy_log_workout"}

\* f"{start_date}T00:00:00.000Z" if len(start_date) == 10 else start_date
StartOfDay(d) == IF d.time = "" THEN [d EXCEPT !.time = "T00:00:00.000Z"] ELSE d
\* f"{end_date}T23:59:59.999Z" if len(end_date) == 10 else end_date
EndOfDay(d) == IF d.time = "" THEN [d EXCEPT !.time = "T23:59:59.999Z"] ELSE d

\* get_recovery_data .. get_cycles_data: the endpoint and the params of the
\* request; get_strain_data passes the dates on as they are
WhoopGetter(name, start_date, end_date) ==
    LET widen == name # "whoop_get_strain"
        start == IF ~HasDate(start_date) THEN EmptyDict
                 ELSE ("start" :> IF widen THEN StartOfDay(start_date) ELSE start_date)
        end == IF ~HasDate(end_date) THEN EmptyDict
               ELSE ("end" :> IF widen THEN EndOfDay(end_date) ELSE end_date)
    IN  [endpoint |-> CASE name = "whoop_get_recovery" -> "recovery"
                        [] name = "whoop_get_sleep" -> "activity/sleep"
                        [] name = "whoop_get_strain" -> "cycle"
                        [] name = "whoop_get_workouts" -> "activity/workout"
                        [] name = "whoop_get_cycles" -> "cycle",
         params |-> start @@ end]

\* the label of the error message of a tool
ErrorLabel(name) ==
    CASE name = "whoop_get_recovery" -> "Error fetching recovery data"
      [] name = "whoop_get_sleep" -> "Error fetching sleep data"
      [] name = "whoop_get_strain" -> "Error fetching strain data"
      [] name = "whoop_get_workouts" -> "Error fetching workout data"
      [] name = "whoop_get_cycles" -> "Error fetching cycle data"
      [] name = "hevy_get_workouts" -> "Error fetching workouts"
      [] name = "hevy_get_workout_details" -> "Error fetching workout details"
      [] name = "hevy_get_routines" -> "Error fetching routines"
      [] name = "hevy_get_routine_details" -> "Error fetching routine details"
      [] name = "hevy_create_routine" -> "Error creating routine"
      [] name = "hevy_log_workout" -> "Error logging workout"

\* if not start_date or not end_date:
\*     start_date, end_date = _get_default_date_range()
ToolRange(start_date, end_date, t) ==
    IF ~HasDate(start_date) \/ ~HasDate(end_date)
    THEN DefaultDateRange(t) ELSE <<start_date, end_date>>

\* mutant: the tool lets the HTTPException of the client through
WhoopTool_LetsHTTPExceptionThrough(name, start_date, end_date, cfg, file, t, tokenResp, dataResp) ==
    LET range == ToolRange(start_date, end_date, t)
        g == WhoopGetter(name, range[1], range[2])
        r == MakeWhoopRequest(cfg, file, t, tokenResp, dataResp)
    IN  [raised |-> r.answer.status # 200,
         ret |-> IF r.answer.status = 200 THEN Str(<<"data", g.endpoint>>)
                 ELSE NoResult,
         request |-> g, client |-> r]

\* _whoop_get_recovery .. _whoop_get_cycles: [raised, ret, request, client];
\* the client call returns the JSON of the answer (status 200) or raises
\* HTTPException (any other status)
\* whose str() is "<status_code>: <detail>"
WhoopTool(name, start_date, end_date, cfg, file, t, tokenResp, dataResp) ==
    LET range == ToolRange(start_date, end_date, t)
        g == WhoopGetter(name, range[1], range[2])
        r == MakeWhoopRequest(cfg, file, t, tokenResp, dataResp)
    IN  [raised |-> FALSE,
         ret |-> IF r.answer.status = 200 THEN Str(<<"data", g.endpoint>>)
                 ELSE Str(<<ErrorLabel(name), r.answer.status, r.answer.detail>>),
         request |-> g, client |-> r]

\* get_workouts .. log_workout: the method and the endpoint of the request
HevyGetter(name) ==
    CASE name = "hevy_get_workouts" -> [method |-> "GET", endpoint |-> "workouts"]
      [] name = "hevy_get_workout_details" ->
            [method |-> "GET", endpoint |-> "workouts/{workout_id}"]
      [] name = "hevy_get_routines" -> [method |-> "GET", endpoint |-> "routines"]
      [] name = "hevy_get_routine_details" ->
            [method |-> "GET", endpoint |-> "routines/{routine_id}"]
      [] name = "hevy_create_routine" -> [method |-> "POST", endpoint |-> "routines"]
      [] name = "hevy_log_workout" -> [method |-> "POST", endpoint |-> "workouts"]

\* _hevy_get_workouts .. _hevy_log_workout: [raised, ret, request, client]
HevyTool(name, cfg, file, resp) ==
    LET g == HevyGetter(name)
        r == MakeHevyRequest(cfg, file, resp)
    IN  [raised |-> FALSE,
         ret |-> IF r.answer.status = 200 THEN Str(<<"data", g.endpoint>>)
                 ELSE Str(<<ErrorLabel(name), r.answer.status, r.answer.detail>>),
         request |-> g, client |-> r]

----------------------------------------------------------------------------
(* Observation of a call: op and its inputs (state, code), the answer, the  *)
(* requests sent in order (reqs), the answers drawn for them (resp, data), the *)
(* access token returned or used as bearer (token), the record connect_whoop *)
(* or a disconnect found persisted (prior), for a disconnect the call before *)
(* it (prev), for the SMS calls the arguments and the dict returned (args,   *)
(* result), the number of calls of                                           *)
(* _refresh_token (refresh). after tells, for a call of _get_valid_token    *)
(* that comes right after another one, whether that one has refreshed the   *)
(* token and with which lifetime.                                           *)

NotAfter == [refreshed |-> FALSE, expires_in |-> 0]

Obs(op) ==
    [n |-> 1 - last.n, op |-> op, state |-> <<>>, code |-> None,
     answer |-> Answer(0, None), reqs |-> <<>>, token |-> None,
     refresh |-> 0, resp |-> NoResponse, data |-> NoResponse,
     after |-> NotAfter, api_key |-> <<>>, prior |-> "none",
     prev |-> "none", args |-> EmptyDict, result |-> NoResult]

\* what connect_whoop found persisted when it was called: no record, a record
\* with a refresh token, a record without one
PriorOf(file) ==
    IF ~file.exists THEN "none"
    ELSE IF "refresh_token" \in DOMAIN file.data THEN "refreshable" ELSE "bare"

HasTokenRequest(reqs) == \E i \in 1..Len(reqs) : reqs[i] \in {ReqExchange, ReqRefresh}
HasDataRequest(reqs) == \E i \in 1..Len(reqs) : reqs[i] \in {ReqData, ReqHevy, ReqHevyProbe}

\* the answer a call has used: the one drawn if the request was sent
Used(resp, reqs) == IF HasTokenRequest(reqs) THEN resp ELSE NoResponse
UsedData(resp, reqs) == IF HasDataRequest(reqs) THEN resp ELSE NoResponse

\* the answers a call can get: none when the call (tried with no answer)
\* sends no such request
TokenAnswers(reqs) == IF HasTokenRequest(reqs) THEN TokenResponses ELSE {NoResponse}
DataAnswers(reqs) == IF HasDataRequest(reqs) THEN DataResponses ELSE {NoResponse}

----------------------------------------------------------------------------
(* Actions: Whoop *)

Init ==
    /\ settings \in SettingsChoices
    /\ now = 0
    /\ stateFile = NoFile
    /\ tokenFile = NoToken
    /\ hevyFile = NoFile
    /\ issued = {}
    /\ consumed = {}
    /\ last = [n |-> 0, op |-> "init", state |-> <<>>, code |-> None,
               answer |-> Answer(0, None), reqs |-> <<>>, token |-> None,
               refresh |-> 0, resp |-> NoResponse, data |-> NoResponse,
               after |-> NotAfter, api_key |-> <<>>, prior |-> "none",
               prev |-> "none", args |-> EmptyDict, result |-> NoResult]
    /\ tokenLock = None
    /\ threads = [t \in Threads |-> IdleThread]
    /\ smsFile = NoConfig
    /\ tasks = <<>>

\* routes/whoop.py whoop_connect: GET /whoop/connect
WhoopConnect ==
    /\ IF ~Truthy(settings.whoop_client_id)
       THEN /\ last' = [Obs("whoop_connect") EXCEPT
                           !.answer = Answer(500, "ValueError")]
            /\ UNCHANGED <<stateFile, issued>>
       ELSE \E state \in Nonces \ issued :
               /\ Cardinality(issued) < MaxIssued
               /\ stateFile' = SaveOauthState(state)
               /\ issued' = issued \cup {state}
               /\ last' = [Obs("whoop_connect") EXCEPT
                              !.state = state, !.answer = Answer(307, "redirect")]
    /\ UNCHANGED <<threadVars, smsVars, settings, now, tokenFile, hevyFile, consumed>>

\* routes/whoop.py whoop_callback: GET /whoop/callback?code&state
WhoopCallback ==
    \E code \in Codes, state \in PresentedStates :
      \E resp \in TokenAnswers(ConnectWhoop(code, state, settings, stateFile,
                                            tokenFile, now, NoResponse).reqs) :
        LET r == ConnectWhoop(code, state, settings, stateFile, tokenFile, now, resp)
        IN  /\ stateFile' = r.stateFile
            /\ tokenFile' = r.tokenFile
            /\ consumed' = consumed \cup r.found
            /\ last' = [Obs("callback") EXCEPT
                           !.state = state, !.answer = r.answer,
                           !.code = IF r.reqs = <<>> THEN None ELSE code,
                           !.reqs = r.reqs, !.resp = Used(resp, r.reqs),
                           !.prior = PriorOf(tokenFile)]
            /\ UNCHANGED <<threadVars, smsVars, settings, now, hevyFile, issued>>

\* connect_whoop called with a state that passes _validate_and_clear_state
\* (the handshake that leads there is the subject of SpecAuth)
Authorize ==
    \E code \in Codes :
      \E resp \in TokenAnswers(ExchangeCode(code, settings, tokenFile, now,
                                            NoResponse).reqs) :
        LET r == ExchangeCode(code, settings, tokenFile, now, resp)
        IN  /\ tokenFile' = r.tokenFile
            /\ last' = [Obs("authorize") EXCEPT
                           !.answer = r.answer,
                           !.code = IF r.reqs = <<>> THEN None ELSE code,
                           !.reqs = r.reqs, !.resp = Used(resp, r.reqs),
                           !.prior = PriorOf(tokenFile)]
            /\ UNCHANGED <<threadVars, smsVars, settings, now, stateFile, hevyFile, issued, consumed>>

\* one call of _get_valid_token
GetValidTokenCall ==
    \E resp \in TokenAnswers(GetValidToken(settings, tokenFile, now, NoResponse).reqs) :
        LET g == GetValidToken(settings, tokenFile, now, resp)
        IN  /\ tokenFile' = g.file
            /\ last' = [Obs("get_valid_token") EXCEPT
                           !.token = g.ret, !.reqs = g.reqs, !.refresh = g.refresh,
                           !.resp = Used(resp, g.reqs),
                           !.after =
                               IF last.op = "get_valid_token" /\ last.resp.kind = "ok"
                               THEN [refreshed |-> TRUE,
                                     expires_in |-> Get(last.resp.body, "expires_in",
                                                        DefaultExpiresIn)]
                               ELSE NotAfter]
            /\ UNCHANGED <<threadVars, smsVars, settings, now, stateFile, hevyFile, issued, consumed>>

\* get_recovery_data, get_sleep_data, get_strain_data, get_workout_data,
\* get_cycles_data: one call of _make_whoop_request
WhoopDataRequest ==
    \E resp \in TokenAnswers(GetValidToken(settings, tokenFile, now, NoResponse).reqs) :
      \E dresp \in DataAnswers(MakeWhoopRequest(settings, tokenFile, now, resp,
                                                 NoResponse).reqs) :
        LET r == MakeWhoopRequest(settings, tokenFile, now, resp, dresp)
        IN  /\ tokenFile' = r.file
            /\ last' = [Obs("data_request") EXCEPT
                           !.answer = r.answer, !.token = r.bearer, !.reqs = r.reqs,
                           !.refresh = r.refresh,
                           !.resp = Used(resp, r.reqs), !.data = UsedData(dresp, r.reqs)]
            /\ UNCHANGED <<threadVars, smsVars, settings, now, stateFile, hevyFile, issued, consumed>>

\* disconnect_whoop
DisconnectWhoop ==
    /\ tokenFile' = ClearToken(tokenFile)
    /\ last' = [Obs("disconnect") EXCEPT
                   !.answer = Answer(200, "Whoop disconnected"),
                   !.prior = PriorOf(tokenFile), !.prev = last.op]
    /\ UNCHANGED <<threadVars, smsVars, settings, now, stateFile, hevyFile, issued, consumed>>

\* get_whoop_status
GetWhoopStatus ==
    \E resp \in TokenAnswers(GetWhoopStatusOf(settings, tokenFile, now, NoResponse).reqs) :
        LET r == GetWhoopStatusOf(settings, tokenFile, now, resp)
        IN  /\ tokenFile' = r.file
            /\ last' = [Obs("status") EXCEPT
                           !.answer = r.answer,
                           !.token = IF r.connected THEN "connected" ELSE None,
                           !.reqs = r.reqs, !.resp = Used(resp, r.reqs)]
            /\ UNCHANGED <<threadVars, smsVars, settings, now, stateFile, hevyFile, issued, consumed>>

\* datetime.utcnow() advances between calls
Tick ==
    /\ \E d \in ClockSteps : now + d <= MaxTicks * d /\ now' = now + d
    /\ last' = Obs("tick")
    /\ UNCHANGED <<threadVars, smsVars, settings, stateFile, tokenFile, hevyFile, issued, consumed>>

\* the server process is started again: get_settings() reads the environment
\* anew, the files under ~/.openpoke stay
Restart ==
    /\ settings' \in SettingsChoices
    /\ last' = Obs("restart")
    /\ UNCHANGED <<threadVars, smsVars, now, stateFile, tokenFile, hevyFile, issued, consumed>>

\* the token lifecycle: a record is issued, read, refreshed, invalidated, deleted
Next ==
    \/ Authorize
    \/ GetValidTokenCall
    \/ WhoopDataRequest
    \/ GetWhoopStatus
    \/ DisconnectWhoop
    \/ Tick
    \/ Restart

Spec == Init /\ [][Next]_vars

\* the authorization handshake: redirects and callbacks
NextAuth ==
    \/ WhoopConnect
    \/ WhoopCallback
    \/ DisconnectWhoop
    \/ Restart

SpecAuth == Init /\ [][NextAuth]_vars

----------------------------------------------------------------------------
(* Actions: Hevy *)

InitHevy ==
    /\ settings \in {[whoop_client_id |-> "", whoop_client_secret |-> "",
                      hevy_api_key |-> k] : k \in HevyEnvKeys}
    /\ now = 0
    /\ stateFile = NoFile
    /\ tokenFile = NoToken
    /\ hevyFile = NoFile
    /\ issued = {}
    /\ consumed = {}
    /\ last = [n |-> 0, op |-> "init", state |-> <<>>, code |-> None,
               answer |-> Answer(0, None), reqs |-> <<>>, token |-> None,
               refresh |-> 0, resp |-> NoResponse, data |-> NoResponse,
               after |-> NotAfter, api_key |-> <<>>, prior |-> "none",
               prev |-> "none", args |-> EmptyDict, result |-> NoResult]
    /\ tokenLock = None
    /\ threads = [t \in Threads |-> IdleThread]
    /\ smsFile = NoConfig
    /\ tasks = <<>>

\* routes/hevy.py hevy_connect: POST /hevy/connect {api_key}
HevyConnect ==
    \E api_key \in KeyInputs :
      \E resp \in DataAnswers(SaveHevyApiKey(api_key, hevyFile, NoResponse).reqs) :
        LET r == SaveHevyApiKey(api_key, hevyFile, resp)
        IN  /\ hevyFile' = r.file
            /\ last' = [Obs("hevy_connect") EXCEPT
                           !.api_key = api_key, !.answer = r.answer,
                           !.reqs = r.reqs, !.data = UsedData(resp, r.reqs)]
            /\ UNCHANGED <<threadVars, smsVars, settings, now, stateFile, tokenFile, issued, consumed>>

\* get_workouts, get_workout, get_routines, get_routine, create_routine,
\* log_workout: one call of _make_hevy_request
HevyDataRequest ==
    \E resp \in DataAnswers(MakeHevyRequest(settings, hevyFile, NoResponse).reqs) :
        LET r == MakeHevyRequest(settings, hevyFile, resp)
        IN  /\ hevyFile' = r.file
            /\ last' = [Obs("hevy_request") EXCEPT
                           !.api_key = r.key, !.answer = r.answer,
                           !.reqs = r.reqs, !.data = UsedData(resp, r.reqs)]
            /\ UNCHANGED <<threadVars, smsVars, settings, now, stateFile, tokenFile, issued, consumed>>

\* routes/hevy.py hevy_disconnect: POST /hevy/disconnect
HevyDisconnect ==
    LET r == ClearHevyApiKey(hevyFile)
    IN  /\ hevyFile' = r.file
        /\ last' = [Obs("hevy_disconnect") EXCEPT
                       !.answer = r.answer, !.prev = last.op,
                       !.prior = IF hevyFile.exists THEN "stored" ELSE "none"]
        /\ UNCHANGED <<threadVars, smsVars, settings, now, stateFile, tokenFile, issued, consumed>>

\* routes/hevy.py hevy_status: GET /hevy/status
HevyStatus ==
    \E resp \in DataAnswers(GetHevyStatusOf(settings, hevyFile, NoResponse).reqs) :
        LET r == GetHevyStatusOf(settings, hevyFile, resp)
        IN  /\ last' = [Obs("hevy_status") EXCEPT
                           !.answer = Answer(200, IF r.connected THEN "connected"
                                                  ELSE "not connected"),
                           !.token = r.source,
                           !.reqs = r.reqs, !.data = UsedData(resp, r.reqs)]
            /\ UNCHANGED <<threadVars, smsVars, settings, now, stateFile, tokenFile, hevyFile, issued, consumed>>

NextHevy ==
    \/ HevyConnect
    \/ HevyDataRequest
    \/ HevyDisconnect
    \/ HevyStatus

SpecHevy == InitHevy /\ [][NextHevy]_vars

----------------------------------------------------------------------------
(* Actions: SMS *)

InitSms ==
    /\ settings \in SmsSettings
    /\ now = 0
    /\ stateFile = NoFile
    /\ tokenFile = NoToken
    /\ hevyFile = NoFile
    /\ issued = {}
    /\ consumed = {}
    /\ last = [n |-> 0, op |-> "init", state |-> <<>>, code |-> None,
               answer |-> Answer(0, None), reqs |-> <<>>, token |-> None,
               refresh |-> 0, resp |-> NoResponse, data |-> NoResponse,
               after |-> NotAfter, api_key |-> <<>>, prior |-> "none",
               prev |-> "none", args |-> EmptyDict, result |-> NoResult]
    /\ tokenLock = None
    /\ threads = [t \in Threads |-> IdleThread]
    /\ smsFile = NoConfig
    /\ tasks = <<>>

SmsFrame ==
    UNCHANGED <<threadVars, settings, now, stateFile, tokenFile, hevyFile, issued,
                consumed>>

\* what Twilio answers to messages.create, if send_sms gets that far
SendAnswers(cfg, file) ==
    IF SendSms(cfg, file, "", "", "ok").sent = <<>> THEN {"none"} ELSE TwilioAnswers

\* routes/sms.py webhook: POST /sms/webhook
SmsWebhook ==
    \E form \in Forms :
        LET r == Webhook(form)
        IN  /\ Len(tasks) < MaxMessages
            /\ tasks' = tasks \o r.scheduled
            /\ last' = [Obs("sms_webhook") EXCEPT !.answer = r.answer, !.args = form]
            /\ UNCHANGED smsFile
            /\ SmsFrame

\* the event loop runs a scheduled task for the first time: handle_incoming_sms
\* lines 249-270, up to the await of runtime.execute_sync
TaskStart(i) ==
    /\ i \in DOMAIN tasks
    /\ tasks[i].pc = "scheduled"
    /\ tasks' = [tasks EXCEPT ![i].pc = "awaiting"]
    /\ UNCHANGED <<smsFile, last>>
    /\ SmsFrame

\* the await of execute_sync is over: handle_incoming_sms lines 270-281
TaskResume(i) ==
    /\ i \in DOMAIN tasks
    /\ tasks[i].pc = "awaiting"
    /\ \E agent \in AgentOutcomes :
         \E resp1 \in (IF agent.kind = "ok" THEN SendAnswers(settings, smsFile)
                        ELSE {"none"}),
            resp2 \in (IF agent.kind = "ok" THEN {"none"}
                        ELSE SendAnswers(settings, smsFile)) :
           LET r == HandleIncomingSms(settings, smsFile, tasks[i].from,
                                      tasks[i].body, agent, resp1, resp2)
           IN  tasks' = [tasks EXCEPT ![i] =
                  [@ EXCEPT !.pc = IF r.raised THEN "raised" ELSE "done",
                            !.agent = agent.kind, !.reply = agent.text,
                            !.calls = r.calls, !.ret = r.ret]]
    /\ UNCHANGED <<smsFile, last>>
    /\ SmsFrame

\* one call of send_sms
SendSmsCall ==
    \E to_number \in Senders, message \in Replies :
      \E resp \in SendAnswers(settings, smsFile) :
        LET r == SendSms(settings, smsFile, to_number, message, resp)
        IN  /\ last' = [Obs("send_sms") EXCEPT
                           !.args = [to |-> to_number, message |-> message],
                           !.answer = IF r.raised THEN Answer(0, "raised")
                                      ELSE Answer(0, "returned"),
                           !.result = r.result]
            /\ UNCHANGED <<smsFile, tasks>>
            /\ SmsFrame

\* routes/sms.py connect: POST /sms/connect
SmsConnect ==
    \E phone_number \in {TwilioNumber, ""} :
      \E fetch \in (IF settings.twilio_installed THEN TwilioAnswers ELSE {"none"}) :
        \E list \in (IF fetch = "ok" THEN ListAnswers ELSE {"none"}) :
          LET r == ConnectSms(settings, smsFile, "AC2", "tok2", phone_number,
                              fetch, list)
          IN  /\ smsFile' = r.file
              /\ last' = [Obs("sms_connect") EXCEPT
                             !.answer = r.answer,
                             !.args = [account_sid |-> "AC2", auth_token |-> "tok2",
                                       phone_number |-> phone_number,
                                       fetch |-> fetch, list |-> list]]
              /\ UNCHANGED tasks
              /\ SmsFrame

\* routes/sms.py disconnect: POST /sms/disconnect
SmsDisconnect ==
    LET r == DisconnectSms(smsFile)
    IN  /\ smsFile' = r.file
        /\ last' = [Obs("sms_disconnect") EXCEPT
                       !.answer = r.answer, !.prev = last.op,
                       !.prior = IF smsFile.exists THEN "stored" ELSE "none"]
        /\ UNCHANGED tasks
        /\ SmsFrame

\* routes/sms.py status: GET /sms/status
SmsStatus ==
    \E fetch \in (IF GetSmsStatusOf(settings, smsFile, "ok").reqs = <<>>
                   THEN {"none"} ELSE TwilioAnswers) :
        LET r == GetSmsStatusOf(settings, smsFile, fetch)
        IN  /\ last' = [Obs("sms_status") EXCEPT
                           !.answer = Answer(200, IF r.connected THEN "connected"
                                                  ELSE "not connected"),
                           !.token = r.source]
            /\ UNCHANGED <<smsFile, tasks>>
            /\ SmsFrame

\* the SMS configuration and outbound messages
NextSms ==
    \/ SendSmsCall
    \/ SmsConnect
    \/ SmsDisconnect
    \/ SmsStatus

SpecSms == InitSms /\ [][NextSms]_vars

\* inbound messages: the webhook, the tasks it schedules, and the changes of
\* the configuration that can happen while a task waits
NextInbound ==
    \/ SmsWebhook
    \/ \E i \in 1..MaxMessages : TaskStart(i)
    \/ \E i \in 1..MaxMessages : TaskResume(i)
    \/ SmsConnect
    \/ SmsDisconnect

SpecInbound == InitSms /\ [][NextInbound]_vars

\* the event loop runs every task that is ready: a scheduled task starts, a
\* task whose await is over resumes
SpecInboundFair ==
    /\ SpecInbound
    /\ \A i \in 1..MaxMessages : WF_vars(TaskStart(i)) /\ WF_vars(TaskResume(i))

\* the three credential stores: records are persisted and deleted
NextStores ==
    \/ Authorize
    \/ DisconnectWhoop
    \/ HevyConnect
    \/ HevyDisconnect
    \/ SmsConnect
    \/ SmsDisconnect

\* no record is persisted; the environment sets the Whoop client credentials
\* and no Twilio credentials, the Twilio SDK is installed
InitStores ==
    /\ InitSms
    /\ settings.twilio_account_sid = ""
    /\ settings.twilio_installed

SpecStores == InitStores /\ [][NextStores]_vars

----------------------------------------------------------------------------
(* Actions: callbacks that run in different threads, statement by statement. *)
(* _validate_and_clear_state takes no lock. passed is the history of the     *)
(* states with which the callbacks of a thread have passed the validation.   *)

IdleCallback ==
    [op |-> "idle", pc |-> "idle", state |-> <<>>, saved_state |-> <<>>,
     ret |-> None, calls |-> 0, passed |-> <<>>]

\* the client credentials are configured, nothing is persisted
InitCallbacks ==
    /\ settings = [whoop_client_id |-> "cid", whoop_client_secret |-> "secret",
                   hevy_api_key |-> <<>>]
    /\ now = 0
    /\ stateFile = NoFile
    /\ tokenFile = NoToken
    /\ hevyFile = NoFile
    /\ issued = {}
    /\ consumed = {}
    /\ last = [n |-> 0, op |-> "init", state |-> <<>>, code |-> None,
               answer |-> Answer(0, None), reqs |-> <<>>, token |-> None,
               refresh |-> 0, resp |-> NoResponse, data |-> NoResponse,
               after |-> NotAfter, api_key |-> <<>>, prior |-> "none",
               prev |-> "none", args |-> EmptyDict, result |-> NoResult]
    /\ tokenLock = None
    /\ threads = [t \in Threads |-> IdleCallback]
    /\ smsFile = NoConfig
    /\ tasks = <<>>

CallbackFrame ==
    UNCHANGED <<tokenLock, smsVars, settings, now, hevyFile, issued, consumed>>

\* the callback of the thread is answered 400 Invalid OAuth state
Reject(th) ==
    [th EXCEPT !.op = "idle", !.pc = "idle", !.saved_state = <<>>, !.ret = 400]

\* GET /whoop/connect while no callback is running
IssueState ==
    /\ \A t \in Threads : threads[t].pc = "idle"
    /\ WhoopConnect

\* GET /whoop/callback?state= starts in thread t
CallbackStart(t) ==
    \E state \in Nonces :
        /\ threads[t].pc = "idle"
        /\ threads[t].calls < MaxCalls
        /\ threads' = [threads EXCEPT ![t] =
               [@ EXCEPT !.op = "callback", !.pc = "exists", !.state = state,
                         !.saved_state = <<>>, !.ret = None, !.calls = @ + 1]]
        /\ UNCHANGED <<stateFile, tokenFile, last>>
        /\ CallbackFrame

\* line 79: if not _STATE_FILE.exists(): return False
ExistsStep(t) ==
    LET th == threads[t]
    IN  /\ th.pc = "exists"
        /\ threads' = [threads EXCEPT ![t] =
               IF ~stateFile.exists THEN Reject(th) ELSE [th EXCEPT !.pc = "read"]]
        /\ UNCHANGED <<stateFile, tokenFile, last>>
        /\ CallbackFrame

\* lines 83-84: open and read().strip(); open raises when the file is gone
\* and the except of line 90 returns False
ReadStep(t) ==
    LET th == threads[t]
    IN  /\ th.pc = "read"
        /\ threads' = [threads EXCEPT ![t] =
               IF ~stateFile.exists THEN Reject(th)
               ELSE [th EXCEPT !.pc = "unlink",
                               !.saved_state = Strip(stateFile.content)]]
        /\ UNCHANGED <<stateFile, tokenFile, last>>
        /\ CallbackFrame

\* mutant: unlinking a file that is gone is not an error
UnlinkStep_MissingOk(t) ==
    LET th == threads[t]
    IN  /\ th.pc = "unlink"
        /\ threads' = [threads EXCEPT ![t] = [th EXCEPT !.pc = "compare"]]
        /\ stateFile' = NoFile
        /\ UNCHANGED <<tokenFile, last>>
        /\ CallbackFrame

\* line 87: _STATE_FILE.unlink(); it raises when the file is gone and the
\* except of line 90 returns False
UnlinkStep(t) ==
    LET th == threads[t]
    IN  /\ th.pc = "unlink"
        /\ IF ~stateFile.exists
           THEN /\ threads' = [threads EXCEPT ![t] = Reject(th)]
                /\ UNCHANGED stateFile
           ELSE /\ threads' = [threads EXCEPT ![t] = [th EXCEPT !.pc = "compare"]]
                /\ stateFile' = NoFile
        /\ UNCHANGED <<tokenFile, last>>
        /\ CallbackFrame

\* line 89: return saved_state == state, and connect_whoop line 225
CompareStep(t) ==
    LET th == threads[t]
    IN  /\ th.pc = "compare"
        /\ threads' = [threads EXCEPT ![t] =
               IF th.saved_state = th.state
               THEN [th EXCEPT !.pc = "exchange", !.passed = Append(@, th.state)]
               ELSE Reject(th)]
        /\ UNCHANGED <<stateFile, tokenFile, last>>
        /\ CallbackFrame

\* connect_whoop lines 230-279: the code exchange
ExchangeStep(t) ==
    LET th == threads[t]
    IN  /\ th.pc = "exchange"
        /\ \E resp \in ThreadTokenResponses :
              LET r == ExchangeCode("c1", settings, tokenFile, now, resp)
              IN  /\ tokenFile' = r.tokenFile
                  /\ last' = [Obs("callback") EXCEPT
                                 !.state = th.state, !.answer = r.answer,
                                 !.code = "c1", !.reqs = r.reqs, !.resp = resp,
                                 !.prior = PriorOf(tokenFile)]
                  /\ threads' = [threads EXCEPT ![t] =
                         [th EXCEPT !.op = "idle", !.pc = "idle",
                                    !.saved_state = <<>>, !.ret = r.answer.status]]
        /\ UNCHANGED stateFile
        /\ CallbackFrame

NextCallbacks ==
    \/ IssueState
    \/ \E t \in Threads :
          \/ CallbackStart(t)
          \/ ExistsStep(t)
          \/ ReadStep(t)
          \/ UnlinkStep(t)
          \/ CompareStep(t)
          \/ ExchangeStep(t)

SpecCallbacks == InitCallbacks /\ [][NextCallbacks]_vars

----------------------------------------------------------------------------
(* Actions: every operation that reads or writes the Whoop token record *)

\* the client credentials are configured
InitRecord ==
    /\ Init
    /\ Truthy(settings.whoop_client_id)
    /\ Truthy(settings.whoop_client_secret)
    /\ settings.hevy_api_key = <<>>

\* the clock stands still: a record whose expires_in is at most the margin
\* is expiring from the start, one with a longer expires_in is not
NextRecord ==
    \/ WhoopConnect
    \/ WhoopCallback
    \/ WhoopDataRequest
    \/ GetWhoopStatus
    \/ DisconnectWhoop

SpecRecord == InitRecord /\ [][NextRecord]_vars

----------------------------------------------------------------------------
(* Actions: the authorization handshake with the trail of the nonce. The     *)
(* observation of a callback also tells the state the most recent redirect   *)
(* has issued (latest), what the callback found stored (found), and the      *)
(* state, the finding and the outcome of the callback right before it.       *)

\* the state the most recent /whoop/connect has issued
LatestIssued(o) ==
    IF o.op = "whoop_connect" /\ o.answer.status = 307 THEN o.state
    ELSE Get(o.args, "latest", <<>>)

\* what a callback finds in the state file
Stored(file) == IF file.exists THEN file.content ELSE <<>>

\* the answers of the token endpoint to the code exchange of a callback, if
\* one is sent
ExchangeAnswers(reqs) ==
    IF HasTokenRequest(reqs)
    THEN {r \in ThreadTokenResponses :
             r.kind = "ok" => {"refresh_token", "expires_in"} \subseteq DOMAIN r.body}
    ELSE {NoResponse}

\* routes/whoop.py whoop_callback: GET /whoop/callback?code=&state=
WhoopCallbackTraced ==
    \E code \in Codes, state \in PresentedStates :
      \E resp \in ExchangeAnswers(ConnectWhoop(code, state, settings, stateFile,
                                               tokenFile, now, NoResponse).reqs) :
        LET r == ConnectWhoop(code, state, settings, stateFile, tokenFile, now, resp)
            after_callback == last.op = "callback"
        IN  /\ stateFile' = r.stateFile
            /\ tokenFile' = r.tokenFile
            /\ consumed' = consumed \cup r.found
            /\ last' = [Obs("callback") EXCEPT
                           !.state = state, !.answer = r.answer,
                           !.code = IF r.reqs = <<>> THEN None ELSE code,
                           !.reqs = r.reqs, !.resp = Used(resp, r.reqs),
                           !.prior = PriorOf(tokenFile),
                           !.prev = last.op,
                           !.args = [latest |-> LatestIssued(last),
                                     found |-> Stored(stateFile),
                                     before_state |->
                                         IF after_callback THEN last.state ELSE <<>>,
                                     before_found |->
                                         IF after_callback THEN last.args.found
                                         ELSE <<>>]]
            /\ UNCHANGED <<threadVars, smsVars, settings, now, hevyFile, issued>>

NextNonce ==
    \/ WhoopConnect
    \/ WhoopCallbackTraced

SpecNonce == InitRecord /\ [][NextNonce]_vars

----------------------------------------------------------------------------
(* Actions: the provider operations as the agent and the UI call them *)

\* a Whoop record is persisted or not (saved by connect_whoop at time 0 with
\* a lifetime at the margin or over it), a Hevy key is stored or not
InitProviders ==
    /\ settings = [whoop_client_id |-> "cid", whoop_client_secret |-> "secret",
                   hevy_api_key |-> <<>>]
    /\ now = 0
    /\ stateFile = NoFile
    /\ tokenFile \in {NoToken} \cup
          {SaveToken(WithExpiry(b, 0)) :
              b \in {x \in TokenBodies :
                       /\ x["access_token"] = "at1"
                       /\ Get(x, "refresh_token", None) = "rt1"
                       /\ Get(x, "expires_in", 0) \in {300, 360}}}
    /\ hevyFile \in {NoFile, SaveApiKeyToFile(<<"k">>)}
    /\ issued = {}
    /\ consumed = {}
    /\ last = [n |-> 0, op |-> "init", state |-> <<>>, code |-> None,
               answer |-> Answer(0, None), reqs |-> <<>>, token |-> None,
               refresh |-> 0, resp |-> NoResponse, data |-> NoResponse,
               after |-> NotAfter, api_key |-> <<>>, prior |-> "none",
               prev |-> "none", args |-> EmptyDict, result |-> NoResult]
    /\ tokenLock = None
    /\ threads = [t \in Threads |-> IdleThread]
    /\ smsFile = NoConfig
    /\ tasks = <<>>

\* the answers of the token endpoint to the refresh of a tool call, if one
\* is sent
ToolTokenAnswers(reqs) ==
    IF HasTokenRequest(reqs)
    THEN {r \in ThreadTokenResponses :
             r.kind = "ok" => {"refresh_token", "expires_in"} \subseteq DOMAIN r.body}
    ELSE {NoResponse}

\* one call of a Whoop tool callable with dates of the set ranges
WhoopToolCallWith(ranges) ==
    \E name \in WhoopTools, range \in ranges :
      \E resp \in ToolTokenAnswers(GetValidToken(settings, tokenFile, now,
                                                 NoResponse).reqs) :
        \E dresp \in DataAnswers(MakeWhoopRequest(settings, tokenFile, now, resp,
                                                   NoResponse).reqs) :
          LET r == WhoopTool(name, range[1], range[2], settings, tokenFile, now,
                             resp, dresp)
          IN  /\ tokenFile' = r.client.file
              /\ last' = [Obs("whoop_tool") EXCEPT
                             !.args = [tool |-> name, request |-> r.request,
                                       start_date |-> range[1],
                                       end_date |-> range[2]],
                             !.answer = IF r.raised THEN Answer(0, "raised")
                                        ELSE Answer(0, "returned"),
                             !.result = r.ret,
                             !.token = r.client.bearer, !.reqs = r.client.reqs,
                             !.refresh = r.client.refresh,
                             !.resp = Used(resp, r.client.reqs),
                             !.data = UsedData(dresp, r.client.reqs)]
              /\ UNCHANGED <<threadVars, smsVars, settings, now, stateFile, hevyFile,
                             issued, consumed>>

WhoopToolCall == WhoopToolCallWith(ToolRanges)

\* one call of a Hevy tool callable
HevyToolCall ==
    \E name \in HevyTools :
      \E resp \in DataAnswers(MakeHevyRequest(settings, hevyFile, NoResponse).reqs) :
        LET r == HevyTool(name, settings, hevyFile, resp)
        IN  /\ hevyFile' = r.client.file
            /\ last' = [Obs("hevy_tool") EXCEPT
                           !.args = [tool |-> name, request |-> r.request],
                           !.answer = IF r.raised THEN Answer(0, "raised")
                                      ELSE Answer(0, "returned"),
                           !.result = r.ret,
                           !.api_key = r.client.key, !.reqs = r.client.reqs,
                           !.data = UsedData(resp, r.client.reqs)]
            /\ UNCHANGED <<threadVars, smsVars, settings, now, stateFile, tokenFile,
                           issued, consumed>>

\* the (start_date, end_date) of the calls whose dates are looked at: none,
\* both bare, both with a time, only the start, only the end
DateRanges ==
    {<<NoDate, NoDate>>, <<BareDate(1), BareDate(2)>>,
     <<DateTime(1, "T08:30:00.000Z"), DateTime(2, "T20:00:00.000Z")>>,
     <<BareDate(1), NoDate>>, <<NoDate, DateTime(2, "T20:00:00.000Z")>>}

\* a record that does not expire soon is persisted; the clock is at day 0,
\* at the last minute of day 0 or at day 8
InitDates ==
    /\ InitProviders
    /\ tokenFile.exists
    /\ Get(tokenFile.data, "expires_in", 0) = 360
    /\ ~hevyFile.exists

\* get_recovery_data .. get_cycles_data called with dates
WhoopFetch ==
    \E name \in WhoopTools, range \in DateRanges :
      \E dresp \in DataAnswers(MakeWhoopRequest(settings, tokenFile, now, NoResponse,
                                                 NoResponse).reqs) :
        LET g == WhoopGetter(name, range[1], range[2])
            r == MakeWhoopRequest(settings, tokenFile, now, NoResponse, dresp)
        IN  /\ tokenFile' = r.file
            /\ last' = [Obs("whoop_fetch") EXCEPT
                           !.args = [tool |-> name, request |-> g,
                                     start_date |-> range[1], end_date |-> range[2]],
                           !.answer = r.answer,
                           !.token = r.bearer, !.reqs = r.reqs,
                           !.refresh = r.refresh,
                           !.data = UsedData(dresp, r.reqs)]
            /\ UNCHANGED <<threadVars, smsVars, settings, now, stateFile, hevyFile,
                           issued, consumed>>

SpecFetch == InitDates /\ [][WhoopFetch]_vars

\* one call of a Whoop tool callable with any of the date ranges
WhoopToolCallDated == WhoopToolCallWith(DateRanges)

\* the day of the call: day 0, the last second of day 0, day 8
InitToolDates ==
    \E t \in {0, SecondsPerDay - 1, 8 * SecondsPerDay} :
        /\ settings = [whoop_client_id |-> "cid", whoop_client_secret |-> "secret",
                       hevy_api_key |-> <<>>]
        /\ now = t
        /\ stateFile = NoFile
        /\ tokenFile = SaveToken(WithExpiry([access_token |-> "at1",
                                              refresh_token |-> "rt1",
                                              expires_in |-> 360], t))
        /\ hevyFile = NoFile
        /\ issued = {}
        /\ consumed = {}
        /\ last = [n |-> 0, op |-> "init", state |-> <<>>, code |-> None,
                   answer |-> Answer(0, None), reqs |-> <<>>, token |-> None,
                   refresh |-> 0, resp |-> NoResponse, data |-> NoResponse,
                   after |-> NotAfter, api_key |-> <<>>, prior |-> "none",
                   prev |-> "none", args |-> EmptyDict, result |-> NoResult]
        /\ tokenLock = None
        /\ threads = [t2 \in Threads |-> IdleThread]
        /\ smsFile = NoConfig
        /\ tasks = <<>>

SpecToolDates == InitToolDates /\ [][WhoopToolCallDated]_vars

\* the operations that send requests to the providers
NextProviders ==
    \/ WhoopToolCall
    \/ HevyToolCall
    \/ GetWhoopStatus
    \/ HevyStatus
    \/ HevyConnect

SpecProviders == InitProviders /\ [][NextProviders]_vars

----------------------------------------------------------------------------
(* Threads: the token operations of whoop/client.py, statement by statement. *)
(* Every access to the token file is inside `with _TOKEN_LOCK:`; a thread    *)
(* takes the lock (Acquire), runs the body of the with-block and releases    *)
(* the lock at its end (LoadStep, RefreshLoadStep, SaveStep, ClearStep). The *)
(* statements between two with-blocks run with the lock free.                *)

\* the calls a thread can be in
ThreadOps == {"get_valid_token", "data_request", "disconnect"}

\* the statements that enter a with _TOKEN_LOCK block
LockPcs == {"load", "refresh_load", "save", "clear"}

\* a file is persisted before the threads start: a record that connect_whoop
\* has saved at time 0, expiring-soon (expires_in = 300) or not (360)
InitThreads ==
    /\ settings = [whoop_client_id |-> "cid", whoop_client_secret |-> "secret",
                   hevy_api_key |-> <<>>]
    /\ now = 0
    /\ stateFile = NoFile
    /\ tokenFile \in {SaveToken(WithExpiry(b, 0)) :
                         b \in {x \in TokenBodies :
                                  /\ x["access_token"] = "at1"
                                  /\ Get(x, "refresh_token", None) = "rt1"
                                  /\ Get(x, "expires_in", 0) \in {300, 360}}}
    /\ hevyFile = NoFile
    /\ issued = {}
    /\ consumed = {}
    /\ last = [n |-> 0, op |-> "init", state |-> <<>>, code |-> None,
               answer |-> Answer(0, None), reqs |-> <<>>, token |-> None,
               refresh |-> 0, resp |-> NoResponse, data |-> NoResponse,
               after |-> NotAfter, api_key |-> <<>>, prior |-> "none",
               prev |-> "none", args |-> EmptyDict, result |-> NoResult]
    /\ tokenLock = None
    /\ threads = [t \in Threads |-> IdleThread]
    /\ smsFile = NoConfig
    /\ tasks = <<>>

ThreadFrame ==
    UNCHANGED <<smsVars, settings, now, stateFile, hevyFile, issued, consumed, last>>

\* the thread's call returns v
Return(th, v) ==
    [th EXCEPT !.op = "idle", !.pc = "idle", !.have = FALSE,
               !.token_data = EmptyDict, !.ret = v]

\* _get_valid_token has the access token v (or None): the call returns, or
\* _make_whoop_request goes on to its GET
AfterGetValidToken(th, v) ==
    IF th.op = "data_request" /\ Truthy(v)
    THEN [th EXCEPT !.pc = "get", !.have = FALSE, !.token_data = EmptyDict]
    ELSE Return(th, v)

\* a handler starts in thread t
Call(t) ==
    \E op \in ThreadOps :
        /\ threads[t].pc = "idle"
        /\ threads[t].calls < MaxCalls
        /\ threads' = [threads EXCEPT ![t] =
               [op |-> op, pc |-> IF op = "disconnect" THEN "clear" ELSE "load",
                have |-> FALSE, token_data |-> EmptyDict, ret |-> None,
                calls |-> threads[t].calls + 1]]
        /\ UNCHANGED <<tokenLock, tokenFile>>
        /\ ThreadFrame

\* with _TOKEN_LOCK: the thread blocks until the lock is free and takes it
Acquire(t) ==
    /\ threads[t].pc \in LockPcs
    /\ tokenLock = None
    /\ tokenLock' = t
    /\ UNCHANGED <<threads, tokenFile>>
    /\ ThreadFrame

\* _get_valid_token line 154: token_data = _load_token(), then lines 156-164
LoadStep(t) ==
    LET th == threads[t]
        token_data == LoadToken(tokenFile)
    IN  /\ th.pc = "load"
        /\ tokenLock = t
        /\ tokenLock' = None
        /\ threads' = [threads EXCEPT ![t] =
               IF ~tokenFile.exists
               THEN Return(th, None)
               ELSE IF IsTokenExpired(token_data, now)
               THEN [th EXCEPT !.pc = "refresh_load", !.have = TRUE,
                               !.token_data = token_data]
               ELSE AfterGetValidToken(th, Get(token_data, "access_token", None))]
        /\ UNCHANGED tokenFile
        /\ ThreadFrame

\* _refresh_token line 111: token_data = _load_token(), then lines 112-117
RefreshLoadStep(t) ==
    LET th == threads[t]
        token_data == LoadToken(tokenFile)
    IN  /\ th.pc = "refresh_load"
        /\ tokenLock = t
        /\ tokenLock' = None
        /\ threads' = [threads EXCEPT ![t] =
               IF ~tokenFile.exists \/ ~Truthy(Get(token_data, "refresh_token", None))
               THEN Return(th, None)
               ELSE IF ~Truthy(settings.whoop_client_id)
                          \/ ~Truthy(settings.whoop_client_secret)
               THEN Return(th, None)
               ELSE [th EXCEPT !.pc = "post", !.have = TRUE,
                               !.token_data = token_data]]
        /\ UNCHANGED tokenFile
        /\ ThreadFrame

\* _refresh_token lines 119-140: requests.post, new_token_data
PostStep(t) ==
    LET th == threads[t]
    IN  /\ th.pc = "post"
        /\ \E resp \in ThreadTokenResponses :
              threads' = [threads EXCEPT ![t] =
                 IF resp.kind # "ok"
                 THEN Return(th, None)
                 ELSE LET stamped == WithExpiry(resp.body, now)
                          new_token_data ==
                              IF "refresh_token" \notin DOMAIN stamped
                              THEN ("refresh_token" :> th.token_data["refresh_token"])
                                       @@ stamped
                              ELSE stamped
                      IN  [th EXCEPT !.pc = "save", !.token_data = new_token_data]]
        /\ UNCHANGED <<tokenLock, tokenFile>>
        /\ ThreadFrame

\* _refresh_token lines 142-144: _save_token(new_token_data), return it
SaveStep(t) ==
    LET th == threads[t]
    IN  /\ th.pc = "save"
        /\ tokenLock = t
        /\ tokenLock' = None
        /\ tokenFile' = SaveToken(th.token_data)
        /\ threads' = [threads EXCEPT ![t] =
               AfterGetValidToken(th, Get(th.token_data, "access_token", None))]
        /\ ThreadFrame

\* _make_whoop_request lines 185-207: requests.get and its outcomes
GetStep(t) ==
    LET th == threads[t]
    IN  /\ th.pc = "get"
        /\ \E dresp \in DataResponses :
              threads' = [threads EXCEPT ![t] =
                 IF dresp.kind = "http_error" /\ dresp.status = 401
                 THEN [th EXCEPT !.pc = "clear"]
                 ELSE Return(th, dresp.status)]
        /\ UNCHANGED <<tokenLock, tokenFile>>
        /\ ThreadFrame

\* _clear_token, called by disconnect_whoop (line 284) and by
\* _make_whoop_request on a 401 (line 193)
ClearStep(t) ==
    LET th == threads[t]
    IN  /\ th.pc = "clear"
        /\ tokenLock = t
        /\ tokenLock' = None
        /\ tokenFile' = ClearToken(tokenFile)
        /\ threads' = [threads EXCEPT ![t] =
               Return(th, IF th.op = "disconnect" THEN 200 ELSE 401)]
        /\ ThreadFrame

NextThreads ==
    \E t \in Threads :
        \/ Call(t)
        \/ Acquire(t)
        \/ LoadStep(t)
        \/ RefreshLoadStep(t)
        \/ PostStep(t)
        \/ SaveStep(t)
        \/ GetStep(t)
        \/ ClearStep(t)

SpecThreads == InitThreads /\ [][NextThreads]_vars

----------------------------------------------------------------------------
(* Properties of the authorization handshake (SpecAuth) *)

InvalidState == Answer(400, "Invalid OAuth state")

\* C1: OAuth state is single-use. A callback that presents a state which
\* whoop_connect never issued, or which an earlier callback has already
\* consumed, is answered with the invalid-state error, whatever code it carries.
C1_StateSingleUse ==
    [][ (last'.op = "callback" /\ (last'.state \notin issued \/ last'.state \in consumed))
            => last'.answer = InvalidState ]_vars

\* a callback has presented a state that an earlier callback consumed, and
\* has been rejected
C1_Witness ==
    /\ last.op = "callback"
    /\ last.state \in consumed
    /\ last.answer = InvalidState

\* C2: a callback is accepted only if the presented state equals the stored
\* nonce; after every callback no nonce is stored any more (whether the states
\* matched or not, whether the exchange succeeded or not); and a callback that
\* repeats the state of the callback before it is rejected.
C2_AcceptedOnlyOnStoredNonce ==
    [][ last'.op = "callback" =>
            /\ (last'.answer # InvalidState
                   => (stateFile.exists /\ stateFile.content = last'.state))
            /\ ~stateFile'.exists
            /\ ((last.op = "callback" /\ last.state = last'.state)
                   => last'.answer = InvalidState) ]_vars

\* a callback has been accepted, its exchange has failed, and the nonce it
\* matched is consumed and gone
C2_Witness ==
    /\ last.op = "callback"
    /\ last.answer = Answer(400, "Failed to connect Whoop")
    /\ last.state \in consumed
    /\ ~stateFile.exists

\* C3: a callback whose state does not match the stored nonce, or that finds
\* no stored nonce, is answered with the invalid-state error, sends no request
\* to the token endpoint and leaves the persisted token record as it was.
C3_RejectedCallbackChangesNothing ==
    [][ (last'.op = "callback"
            /\ (~stateFile.exists \/ stateFile.content # last'.state))
            => /\ last'.answer = InvalidState
               /\ last'.reqs = <<>>
               /\ tokenFile' = tokenFile ]_vars

\* a callback has been rejected while a token record is persisted and a
\* different nonce was stored
C3_Witness ==
    /\ last.op = "callback"
    /\ last.answer = InvalidState
    /\ tokenFile.exists
    /\ consumed # {}
    /\ last.state \notin consumed

----------------------------------------------------------------------------
(* Properties of the token lifecycle (Spec) *)

NotConnected == Answer(401, "Whoop not connected")

\* the persisted record is expiring-soon at time t: t + 5 minutes >= expires_at
ExpiringSoon(file, t) == file.exists /\ t + MarginSeconds >= file.data["expires_at"]

CanRefresh(cfg, file) ==
    /\ Truthy(Get(file.data, "refresh_token", None))
    /\ Truthy(cfg.whoop_client_id)
    /\ Truthy(cfg.whoop_client_secret)

\* C4 as stated: for every persisted record with now + 5 minutes >= expires_at,
\* one call of _get_valid_token sends exactly one POST with
\* grant_type=refresh_token to the token endpoint.
C4_ExactlyOneRefreshPost ==
    [][ (last'.op = "get_valid_token" /\ ExpiringSoon(tokenFile, now))
            => last'.reqs = <<ReqRefresh>> ]_vars

\* C4 as amended: for every persisted record with now + 5 minutes >= expires_at
\* (equality included), one call of _get_valid_token calls _refresh_token
\* exactly once; that call sends exactly one POST with grant_type=refresh_token
\* when the record holds a refresh token and both client credentials are
\* configured, and sends no request otherwise.
C4_ExactlyOneRefreshCall ==
    [][ (last'.op = "get_valid_token" /\ ExpiringSoon(tokenFile, now))
            => /\ last'.refresh = 1
               /\ last'.reqs = IF CanRefresh(settings, tokenFile)
                               THEN <<ReqRefresh>> ELSE <<>> ]_vars

\* a read has found a record that expires exactly at now + 5 minutes and has
\* sent one refresh request
C4_Witness ==
    /\ last.op = "get_valid_token"
    /\ last.refresh = 1
    /\ last.reqs = <<ReqRefresh>>
    /\ last.resp.kind = "http_error"
    /\ tokenFile.exists
    /\ tokenFile.data["expires_at"] = now + MarginSeconds

\* C5: when a record is persisted and now + 5 minutes < expires_at, a read
\* returns the stored access token, sends no request and does not write the
\* record; when no record is persisted it returns None and sends no request.
C5_FreshTokenReturnedUnchanged ==
    [][ last'.op = "get_valid_token" =>
            /\ (~tokenFile.exists
                  => (last'.token = None /\ last'.reqs = <<>> /\ tokenFile' = tokenFile))
            /\ ((tokenFile.exists /\ now + MarginSeconds < tokenFile.data["expires_at"])
                  => /\ last'.token = tokenFile.data["access_token"]
                     /\ last'.reqs = <<>>
                     /\ tokenFile' = tokenFile) ]_vars

\* a read has returned the stored access token of a record that is not
\* expiring-soon, with no request sent
C5_Witness ==
    /\ last.op = "get_valid_token"
    /\ last.token \in AccessTokens
    /\ last.reqs = <<>>
    /\ last.refresh = 0
    /\ tokenFile.exists

\* a read whose refresh succeeds has sent one POST, returns the new access
\* token, and the persisted expires_at is in the future when the lifetime is
\* more than `least` seconds
RefreshingReadPersistsExpiry(least) ==
    (last.op = "get_valid_token" /\ last.resp.kind = "ok")
        => /\ last.reqs = <<ReqRefresh>>
           /\ tokenFile.exists
           /\ last.token = tokenFile.data["access_token"]
           /\ last.token = last.resp.body["access_token"]
           /\ (Get(last.resp.body, "expires_in", DefaultExpiresIn) > least
                  => tokenFile.data["expires_at"] > now)

\* C6 as stated: after a read whose refresh succeeded, an immediately following
\* read returns the new access token without a second refresh, for every
\* expires_in of the provider.
C6_NoSecondRefresh ==
    /\ RefreshingReadPersistsExpiry(-1)
    /\ (last.op = "get_valid_token" /\ last.after.refreshed)
          => /\ last.reqs = <<>>
             /\ last.refresh = 0
             /\ last.token = tokenFile.data["access_token"]

\* C6 as amended: a read whose refresh succeeds makes one POST and persists an
\* expires_at in the future (expires_in > 0), and an immediately following read
\* returns the new access token without a second refresh when expires_in is
\* more than 5 minutes (300 seconds; 3600 when the response omits it).
C6_NoSecondRefreshBeyondMargin ==
    /\ RefreshingReadPersistsExpiry(0)
    /\ (last.op = "get_valid_token" /\ last.after.refreshed
            /\ last.after.expires_in > MarginSeconds)
          => /\ last.reqs = <<>>
             /\ last.refresh = 0
             /\ last.token = tokenFile.data["access_token"]

\* a read right after a read that refreshed with a lifetime over the margin
\* has returned the token with no request
C6_Witness ==
    /\ last.op = "get_valid_token"
    /\ last.after.refreshed
    /\ last.after.expires_in > MarginSeconds
    /\ last.reqs = <<>>
    /\ last.token \in AccessTokens

\* C7: when the refresh fails (exception, non-2xx answer, no refresh token, no
\* client credentials) the read returns None, and a data request is answered
\* as when no record exists: 401 not connected, no request to the data endpoint.
C7_RefreshFailureIsNotConnected ==
    [][ /\ (last'.op = "get_valid_token" /\ last'.refresh = 1 /\ last'.resp.kind # "ok")
            => last'.token = None
        /\ (last'.op = "data_request"
              /\ (~tokenFile.exists \/ (last'.refresh = 1 /\ last'.resp.kind # "ok")))
            => (last'.answer = NotConnected /\ ~HasDataRequest(last'.reqs)) ]_vars

\* a data request over a record whose refresh got a non-2xx answer has been
\* answered 401 not connected
C7_Witness ==
    /\ last.op = "data_request"
    /\ last.refresh = 1
    /\ last.resp.kind = "http_error"
    /\ last.answer = NotConnected
    /\ tokenFile.exists

\* C8: after a successful refresh the persisted record holds the new access
\* token, expires_at = now + expires_in (3600 when omitted), and the refresh
\* token of the response when it has one, the stored one otherwise.
C8_RefreshKeepsRefreshToken ==
    [][ (last'.op \in {"get_valid_token", "status"} /\ last'.resp.kind = "ok")
            => LET body == last'.resp.body
               IN  /\ tokenFile'.exists
                   /\ tokenFile'.data["access_token"] = body["access_token"]
                   /\ tokenFile'.data["expires_at"]
                          = now + Get(body, "expires_in", DefaultExpiresIn)
                   /\ "refresh_token" \in DOMAIN tokenFile'.data
                   /\ tokenFile'.data["refresh_token"]
                          = Get(body, "refresh_token", tokenFile.data["refresh_token"])
                   /\ tokenFile'.data["refresh_token"] \in RefreshTokens ]_vars

\* a refresh whose response has no refresh_token has succeeded and the record
\* still holds a refresh token
C8_Witness ==
    /\ last.op = "get_valid_token"
    /\ last.resp.kind = "ok"
    /\ "refresh_token" \notin DOMAIN last.resp.body
    /\ tokenFile.exists
    /\ tokenFile.data["refresh_token"] \in RefreshTokens

Got401(o) == o.op = "data_request" /\ o.data.status = 401

Connected(o) == o.op = "authorize" /\ o.answer = Answer(200, "Whoop connected")

\* C13: when connect_whoop is called with a matching state and the exchange
\* succeeds, the persisted record afterwards is exactly the provider's response
\* plus expires_at = now + expires_in (3600 when the response has no
\* expires_in); no field of the record persisted before survives.
C13_ExchangeReplacesRecord ==
    [][ Connected(last') =>
            LET body == last'.resp.body
            IN  /\ last'.resp.kind = "ok"
                /\ tokenFile'.exists
                /\ DOMAIN tokenFile'.data = DOMAIN body \cup {"expires_at"}
                /\ \A k \in DOMAIN body : tokenFile'.data[k] = body[k]
                /\ tokenFile'.data["expires_at"]
                       = now + Get(body, "expires_in", DefaultExpiresIn) ]_vars

\* an exchange whose response has no refresh token has succeeded over a
\* record that had one, and the record persisted now has none
C13_Witness ==
    /\ Connected(last)
    /\ last.prior = "refreshable"
    /\ "refresh_token" \notin DOMAIN last.resp.body
    /\ "refresh_token" \notin DOMAIN tokenFile.data
    /\ tokenFile.data["access_token"] = last.resp.body["access_token"]

----------------------------------------------------------------------------
(* Properties of the Hevy key store (SpecHevy) *)

\* C10: when a Hevy data request gets 401 from the provider, the stored API
\* key is deleted before the error is surfaced, and the next Hevy data request
\* is answered 401 not connected instead of sending the rejected key again.
C10_Hevy401InvalidatesStoredKey ==
    [][ /\ (last'.op = "hevy_request" /\ last'.data.status = 401 /\ hevyFile.exists)
            => (last'.answer.status = 401 /\ ~hevyFile'.exists)
        /\ (last.op = "hevy_request" /\ last.data.status = 401
              /\ last'.op = "hevy_request" /\ settings.hevy_api_key = <<>>)
            => (last'.answer = Answer(401, "Hevy not connected") /\ last'.reqs = <<>>)
      ]_vars

----------------------------------------------------------------------------
(* Properties of concurrent token operations (SpecThreads) *)

\* thread t is between the load and the save of its refresh: _refresh_token
\* has loaded the record and has not yet saved the new one
InRefresh(t) == threads[t].pc \in {"post", "save"}

\* thread u runs the body of a with _TOKEN_LOCK block in this step: a load, a
\* save or a delete of the token file
FileAccess(u) == tokenLock = u /\ tokenLock' = None

\* C11: the lock serializes whole read-modify-write sequences. While one
\* thread is between the load and the save of its refresh, no other thread
\* loads, saves or deletes the token file; and a refresh never re-creates a
\* record that was deleted after the refresh loaded it (no step of these
\* operations takes the token file from absent to present).
C11_LockSerializesReadModifyWrite ==
    [][ /\ \A t \in Threads : \A u \in Threads \ {t} :
              InRefresh(t) => ~FileAccess(u)
        /\ (tokenFile'.exists => tokenFile.exists) ]_vars

----------------------------------------------------------------------------
(* Properties of the three credential stores (SpecStores) *)

DisconnectOps == {"disconnect", "hevy_disconnect", "sms_disconnect"}

\* C12: disconnect is idempotent for each store (Whoop token, Hevy API key,
\* SMS config). From any state a disconnect answers success and leaves no
\* record of its store, whether one was present or not; a second disconnect
\* right after it gives the same answer and changes no file.
C12_DisconnectIdempotent ==
    [][ /\ last'.op = "disconnect"
            => (last'.answer = Answer(200, "Whoop disconnected") /\ ~tokenFile'.exists)
        /\ last'.op = "hevy_disconnect"
            => (last'.answer = Answer(200, "Hevy disconnected") /\ ~hevyFile'.exists)
        /\ last'.op = "sms_disconnect"
            => (last'.answer = Answer(200, "ok") /\ ~smsFile'.exists)
        /\ (last.op \in DisconnectOps /\ last'.op = last.op)
            => /\ last'.answer = last.answer
               /\ UNCHANGED <<tokenFile, hevyFile, smsFile>> ]_vars

\* a disconnect right after a disconnect of the same store has found no
\* record and has answered success
C12_Witness ==
    /\ last.op = "sms_disconnect"
    /\ last.prev = "sms_disconnect"
    /\ last.prior = "none"
    /\ last.answer = Answer(200, "ok")
    /\ ~smsFile.exists
    /\ tokenFile.exists
    /\ hevyFile.exists

----------------------------------------------------------------------------
(* Properties of outbound SMS (SpecSms) *)

\* r is a {success: true, sid, status} record or a {success: false, error} one
IsSendResult(r) ==
    /\ "success" \in DOMAIN r
    /\ IF r.success THEN {"sid", "status"} \subseteq DOMAIN r
                   ELSE "error" \in DOMAIN r

\* C14: send_sms never raises past its boundary. For every input and every
\* configuration (sender number missing, Twilio credentials missing, provider
\* error) the call returns a {success: true, sid, status} record or a
\* {success: false, error} record.
C14_SendSmsNeverRaises ==
    last.op = "send_sms"
        => (last.answer.detail = "returned" /\ IsSendResult(last.result))

----------------------------------------------------------------------------
(* Properties of inbound SMS (SpecInbound, SpecInboundFair) *)

\* the task has run to its end
Finished(task) == task.pc \in {"done", "raised"}

\* the agent has failed, or the send of the reply has failed (it raised, or
\* it returned {success: false})
FailedOnPath(task) ==
    \/ task.agent = "exception"
    \/ /\ task.agent = "ok"
       /\ task.calls # <<>>
       /\ (task.calls[1].raised \/ ~task.calls[1].result.success)

\* send_sms has been called with the apology for the sender of the message
ApologyAttempted(task) ==
    \E k \in 1..Len(task.calls) :
        task.calls[k].to = task.from /\ task.calls[k].message = ApologyText

\* C15: any failure on the asynchronous inbound path (agent failure, failure
\* of the reply send) results in an attempt to send the apology to the
\* original sender, and handle_incoming_sms never raises: the task completes
\* normally in every case, also when the apology send fails.
C15_FailureSendsApologyAndNeverRaises ==
    \A i \in DOMAIN tasks :
        Finished(tasks[i])
            => /\ tasks[i].pc = "done"
               /\ (FailedOnPath(tasks[i]) => ApologyAttempted(tasks[i]))

\* the webhook request carried text fields From and Body
Carried(o) == o.op = "sms_webhook" /\ o.args.parse = "ok" /\ o.args.Body # UploadFile

\* the task has called send_sms, first of all with the reply of the agent for
\* the sender of the message
RepliedToSender(task) ==
    /\ Len(task.calls) >= 1
    /\ task.calls[1].to = task.from
    /\ task.calls[1].message = task.reply

\* C16: for every webhook request that carries From = f and Body = b the
\* handler returns the empty-XML acknowledgment while the task it has created
\* for (f, b) has not run yet (it does not wait for the agent), and under fair
\* scheduling every task eventually runs to its end and, when the agent has
\* succeeded, has called send_sms with to = f and the text of the agent's reply.
C16_AckThenReplyEventually ==
    /\ [][ /\ (last' # last /\ Carried(last'))
                => /\ last'.answer = Answer(200, EmptyTwiml)
                   /\ tasks' = Append(tasks, NewTask(last'.args.From, last'.args.Body))
            /\ \A i \in DOMAIN tasks :
                  /\ i \in DOMAIN tasks'
                  /\ tasks'[i].from = tasks[i].from
                  /\ tasks'[i].body = tasks[i].body ]_vars
    /\ \A i \in 1..MaxMessages :
          (i \in DOMAIN tasks)
              ~> (i \in DOMAIN tasks /\ Finished(tasks[i])
                    /\ (tasks[i].agent = "ok" => RepliedToSender(tasks[i])))

\* the first message has been answered with the reply of the agent, sent to
\* its sender; the webhook has just acknowledged a second message whose task
\* has not run yet
C16_Witness ==
    /\ Len(tasks) = 2
    /\ tasks[1].pc = "done"
    /\ tasks[1].agent = "ok"
    /\ RepliedToSender(tasks[1])
    /\ tasks[1].calls[1].result = [success |-> TRUE, sid |-> "SM1",
                                    status |-> "queued", to |-> tasks[1].from]
    /\ tasks[2].pc = "scheduled"
    /\ tasks[2].from # tasks[1].from
    /\ Carried(last)
    /\ last.answer = Answer(200, EmptyTwiml)

\* C17: POST /sms/webhook responds with the same empty XML acknowledgment in
\* every case: when the message is scheduled, when parsing or scheduling fails
\* inside the handler, and whatever the background processing does later.
C17_WebhookAlwaysAcknowledges ==
    last.op = "sms_webhook" => last.answer = Answer(200, EmptyTwiml)

\* a request whose form could not be parsed has been acknowledged, after a
\* message whose background task ended by raising
C17_Witness ==
    /\ last.op = "sms_webhook"
    /\ last.args.parse = "error"
    /\ last.answer = Answer(200, EmptyTwiml)
    /\ Len(tasks) = 1
    /\ tasks[1].pc = "raised"

----------------------------------------------------------------------------
(* Properties of the tool callables and of the requests an operation sends *)

\* the client call under a tool callable has returned the provider's JSON
ClientSucceeded(o) == o.data.kind = "ok"

\* C18: every call of a Whoop or Hevy tool callable returns a string and
\* never raises: the stringified data when the client call succeeded, the
\* tool's error label followed by the stringified exception when it failed
C18_ToolsAlwaysReturnString ==
    last.op \in {"whoop_tool", "hevy_tool"} =>
        /\ last.answer.detail = "returned"
        /\ last.result.type = "str"
        /\ IF ClientSucceeded(last)
           THEN last.result.text[1] = "data"
           ELSE last.result.text[1] = ErrorLabel(last.args.tool)

\* a Whoop tool whose data request was answered 401 has returned its error
\* string
C18_Witness ==
    /\ last.op = "whoop_tool"
    /\ last.data.kind = "http_error"
    /\ last.data.status = 401
    /\ last.answer.detail = "returned"
    /\ last.result = Str(<<ErrorLabel(last.args.tool), 401,
                           "Whoop authentication expired">>)

\* the calls that go to a provider
ProviderOps == {"whoop_tool", "hevy_tool", "status", "hevy_status", "hevy_connect"}
TokenRequests == {ReqExchange, ReqRefresh}
DataRequests == {ReqData, ReqHevy, ReqHevyProbe}
Count(reqs, S) == Cardinality({i \in 1..Len(reqs) : reqs[i] \in S})
Failed(resp) == resp.kind \in {"http_error", "exception"}

C20_ProbeExactlyForStoredKey ==
    last.op = "hevy_status" =>
        /\ (last.reqs = <<ReqHevyProbe>>) <=> (LoadApiKeyFromFile(hevyFile) # <<>>)
        /\ (LoadApiKeyFromFile(hevyFile) = <<>> /\ settings.hevy_api_key # <<>>)
              => /\ last.answer.detail = "connected"
                 /\ last.token = "environment"
                 /\ last.reqs = <<>>

----------------------------------------------------------------------------
(* Properties of the stored Hevy key *)

\* C21: the stored Hevy key is written only by a connect with a key that is
\* not blank and whose probe succeeded, and removed only by a disconnect; a
\* connect with a blank key, a connect whose probe failed, a status check and
\* a data request leave the key file as it was
C21_HevyKeyFrame ==
    [][ /\ (hevyFile' # hevyFile /\ hevyFile'.exists)
              => /\ last'.op = "hevy_connect"
                 /\ last'.data.kind = "ok"
                 /\ Strip(last'.api_key) # <<>>
                 /\ hevyFile' = SaveApiKeyToFile(Strip(last'.api_key))
        /\ (hevyFile' # hevyFile /\ ~hevyFile'.exists)
              => last'.op = "hevy_disconnect"
        /\ (last' # last /\ last'.op \in {"hevy_status", "hevy_request"})
              => hevyFile' = hevyFile
        /\ (last' # last /\ last'.op = "hevy_connect"
               /\ (Strip(last'.api_key) = <<>> \/ last'.data.kind # "ok"))
              => hevyFile' = hevyFile ]_vars

\* a connect with another key was refused by the probe while a key is stored,
\* and the stored key is still the old one
C21_Witness ==
    /\ last.op = "hevy_connect"
    /\ last.data.kind = "http_error"
    /\ hevyFile.exists
    /\ Strip(last.api_key) # <<>>
    /\ hevyFile.content # Strip(last.api_key)

----------------------------------------------------------------------------
(* Properties of the dates of the Whoop requests *)

\* the params of the data request a call has sent
SentParams(o) == o.args.request.params

\* C22: every Whoop data fetch that sends its request sends a bare start
\* date with T00:00:00.000Z appended, a bare end date with T23:59:59.999Z
\* appended, and a date that has a time component as it was given
C22_DatesWidenedInEveryFetch ==
    (last.op = "whoop_fetch" /\ HasDataRequest(last.reqs)) =>
        /\ HasDate(last.args.start_date) =>
              /\ "start" \in DOMAIN SentParams(last)
              /\ SentParams(last)["start"] =
                    IF last.args.start_date.time = ""
                    THEN DateTime(last.args.start_date.day, "T00:00:00.000Z")
                    ELSE last.args.start_date
        /\ HasDate(last.args.end_date) =>
              /\ "end" \in DOMAIN SentParams(last)
              /\ SentParams(last)["end"] =
                    IF last.args.end_date.time = ""
                    THEN DateTime(last.args.end_date.day, "T23:59:59.999Z")
                    ELSE last.args.end_date

\* a call of a Whoop tool that was given no dates and has sent its request
NoDatesCall(o) ==
    /\ o.op = "whoop_tool"
    /\ ~HasDate(o.args.start_date)
    /\ ~HasDate(o.args.end_date)
    /\ HasDataRequest(o.reqs)

\* C23: a Whoop tool called with no dates requests the window of the seven
\* days that end today (UTC): start is the day seven days before the day of
\* the call and end is the day of the call, both bare days before the fetch
\* widens them
C23_DefaultWindowSevenDays ==
    NoDatesCall(last) =>
        /\ DOMAIN SentParams(last) = {"start", "end"}
        /\ SentParams(last)["start"].day = Today(now) - 7
        /\ SentParams(last)["end"].day = Today(now)
        /\ SentParams(last)["start"].time \in {"", "T00:00:00.000Z"}
        /\ SentParams(last)["end"].time \in {"", "T23:59:59.999Z"}

\* on day 8 the recovery tool, called with no dates, has asked for day 1
\* 00:00 to day 8 23:59:59.999
C23_Witness ==
    /\ NoDatesCall(last)
    /\ last.args.tool = "whoop_get_recovery"
    /\ Today(now) = 8
    /\ SentParams(last) = ("start" :> DateTime(1, "T00:00:00.000Z"))
                            @@ ("end" :> DateTime(8, "T23:59:59.999Z"))

\* C24: in every Whoop tool the two dates default on their own: a start date
\* that is not given is seven days before today, an end date that is not
\* given is today, and a date that is given is the one requested, also when
\* the other one is not given
C24_DatesDefaultIndependently ==
    (last.op = "whoop_tool" /\ HasDataRequest(last.reqs)) =>
        /\ DOMAIN SentParams(last) = {"start", "end"}
        /\ SentParams(last)["start"].day =
              IF HasDate(last.args.start_date) THEN last.args.start_date.day
              ELSE Today(now) - 7
        /\ SentParams(last)["end"].day =
              IF HasDate(last.args.end_date) THEN last.args.end_date.day
              ELSE Today(now)

----------------------------------------------------------------------------
(* Properties of the SMS connect *)

\* C25: connect_sms persists {account_sid, auth_token, phone_number} and
\* answers ok exactly when the account fetch succeeded and the phone-number
\* check did not give an empty list; a failed account fetch fails the call
\* and persists nothing, an empty list fails it with 400 and persists
\* nothing, an error of the phone-number check is only a warning
C25_ConnectPersistsIffVerified ==
    [][ (last' # last /\ last'.op = "sms_connect") =>
          LET a == last'.args
          IN  IF a.fetch = "ok" /\ a.list # "empty"
              THEN /\ smsFile' = SaveConfig([account_sid |-> a.account_sid,
                                             auth_token |-> a.auth_token,
                                             phone_number |-> a.phone_number])
                   /\ last'.answer.status = 200
              ELSE /\ smsFile' = smsFile
                   /\ last'.answer.status # 200
                   /\ (a.fetch = "ok" /\ a.list = "empty")
                         => last'.answer.status = 400 ]_vars

\* the phone-number check raised, and the connect has answered ok and
\* persisted the config
C25_Witness ==
    /\ last.op = "sms_connect"
    /\ last.args.fetch = "ok"
    /\ last.args.list = "error"
    /\ last.answer.status = 200
    /\ smsFile # NoConfig
    /\ LoadConfig(smsFile)["phone_number"] = last.args.phone_number

----------------------------------------------------------------------------
(* Properties of the Whoop token record *)

\* the call has sent a refresh that the provider answered with a record
RefreshSucceeded(o) == o.reqs # <<>> /\ o.reqs[1] = ReqRefresh /\ o.resp.kind = "ok"
\* the call has sent a code exchange that the provider answered with a record
ExchangeSucceeded(o) == o.reqs = <<ReqExchange>> /\ o.resp.kind = "ok"
\* the provider has answered the data request of the call with 401
Invalidated(o) ==
    /\ o.op = "data_request"
    /\ o.data.kind = "http_error"
    /\ o.data.status = 401

\* C26: the Whoop token record changes only in a callback whose code exchange
\* succeeded, in a call whose refresh succeeded, in a disconnect and in a
\* data request the provider answered with 401; a rejected callback, a failed
\* exchange, a failed refresh, another provider error, a transport error, and
\* a status check or a data request with a record that is not expiring leave
\* it as it was
C26_TokenRecordFrame ==
    [][ /\ tokenFile' # tokenFile =>
              \/ last'.op = "callback" /\ ExchangeSucceeded(last')
              \/ last'.op \in {"data_request", "status"} /\ RefreshSucceeded(last')
              \/ last'.op = "disconnect"
              \/ Invalidated(last')
        /\ (last' # last /\ last'.op = "callback" /\ ~ExchangeSucceeded(last'))
              => tokenFile' = tokenFile
        /\ (last' # last /\ last'.op \in {"data_request", "status"}
               /\ ~RefreshSucceeded(last') /\ ~Invalidated(last'))
              => tokenFile' = tokenFile ]_vars

\* the refresh of a data request was refused and the stale record, refresh
\* token included, is still persisted
C26_Witness ==
    /\ last.op = "data_request"
    /\ last.reqs = <<ReqRefresh>>
    /\ Failed(last.resp)
    /\ tokenFile.exists
    /\ IsTokenExpired(tokenFile.data, now)
    /\ Truthy(Get(tokenFile.data, "refresh_token", None))

\* C27: get_whoop_status answers 200 with connected = true exactly when a
\* record with an access token is persisted and either it is not expiring
\* within the margin or the refresh the status check has made succeeded; in
\* every other case it answers 200 with connected = false
C27_StatusConnectedIff ==
    [][ (last' # last /\ last'.op = "status") =>
          /\ last'.answer.status = 200
          /\ last'.token \in {"connected", None}
          /\ (last'.token = "connected") <=>
                /\ tokenFile.exists
                /\ Truthy(Get(tokenFile.data, "access_token", None))
                /\ \/ ~IsTokenExpired(tokenFile.data, now)
                   \/ RefreshSucceeded(last') ]_vars

\* a status check has found an expiring record, its refresh was refused, and
\* it has answered not connected while the record is still persisted
C27_Witness ==
    /\ last.op = "status"
    /\ last.reqs = <<ReqRefresh>>
    /\ Failed(last.resp)
    /\ last.token = None
    /\ last.answer.status = 200
    /\ tokenFile.exists

----------------------------------------------------------------------------
(* Properties of callbacks that run in different threads *)

\* the callbacks that have passed the state validation with state s
Passes(s) ==
    {<<t, i>> \in Threads \X (1..MaxCalls) :
        i <= Len(threads[t].passed) /\ threads[t].passed[i] = s}

----------------------------------------------------------------------------
(* Properties of the messages sent for one inbound SMS *)

\* the calls of send_sms of the task that have handed a message to the
\* provider (client.messages.create was called)
Handed(task) == {k \in 1..Len(task.calls) : task.calls[k].sent # <<>>}

\* C29: for one inbound SMS handle_incoming_sms calls send_sms at most twice
\* and hands at most one message to the provider, the reply of the agent or
\* the apology, addressed to the sender
C29_AtMostOneMessagePerInbound ==
    \A i \in DOMAIN tasks :
        /\ Len(tasks[i].calls) <= 2
        /\ Cardinality(Handed(tasks[i])) <= 1
        /\ \A k \in Handed(tasks[i]) :
              /\ tasks[i].calls[k].sent[1].to = tasks[i].from
              /\ tasks[i].calls[k].sent[1].body \in {tasks[i].reply, ApologyText}

\* the send of the reply has raised, the send of the apology has been called
\* after it: two calls of send_sms for one inbound message
C29_Witness ==
    \E i \in DOMAIN tasks :
        /\ Finished(tasks[i])
        /\ tasks[i].agent = "ok"
        /\ Len(tasks[i].calls) = 2
        /\ tasks[i].calls[1].message = tasks[i].reply
        /\ tasks[i].calls[2].message = ApologyText

----------------------------------------------------------------------------
(* Properties of the stored nonce *)

\* C30: one nonce is stored at most, the one the most recent redirect has
\* issued: a redirect overwrites what was stored; a callback finds nothing or
\* that nonce; only the most recently issued state is accepted; a callback
\* with an earlier issued state is rejected; every callback, a rejected one
\* too, leaves no nonce stored, so the callback right after a callback is
\* rejected, also when it presents the most recent state
C30_OnlyLatestNonceAndRejectionConsumes ==
    [][ /\ (last' # last /\ last'.op = "whoop_connect" /\ last'.answer.status = 307)
              => stateFile' = SaveOauthState(last'.state)
        /\ (last' # last /\ last'.op = "callback") =>
              /\ last'.args.found \in {<<>>, last'.args.latest}
              /\ last'.answer # InvalidState
                    => /\ last'.state = last'.args.latest
                       /\ last'.args.found = last'.args.latest
              /\ (last'.state \in issued /\ last'.state # last'.args.latest)
                    => last'.answer = InvalidState
              /\ ~stateFile'.exists
              /\ last.op = "callback" => last'.answer = InvalidState ]_vars

\* two states were issued with no callback in between; a callback with the
\* earlier one has found the later one stored, was rejected and removed it;
\* the callback with the later one, right after, has found nothing and was
\* rejected
C30_Witness ==
    /\ last.op = "callback"
    /\ last.answer = InvalidState
    /\ last.state = last.args.latest
    /\ last.args.found = <<>>
    /\ last.prev = "callback"
    /\ last.args.before_state \in issued \ {last.state}
    /\ last.args.before_found = last.state
    /\ consumed = {last.state}

=============================================================================
